---- MODULE Spec2Model ----
(***************************************************************************)
(* Index coordinator of the code-intelligence server: the `index`,         *)
(* `index_status` and query tool handlers of package server, run as        *)
(* concurrent goroutines over the shared index status, the readiness       *)
(* channel and the graph store.                                            *)
(*                                                                         *)
(* The handlers are translated from registerTools.  Each handler is a      *)
(* process whose program counter advances one shared-state access at a     *)
(* time (a lock section, a store call, a channel wait).  The status        *)
(* helpers setIndexStatus, GetIndexStatus and WaitForIndex and the graph   *)
(* store are not part of the source tree at hand; they are modelled from   *)
(* the written specification of the readiness latch and the store.         *)
(*                                                                         *)
(* The store is abstracted to the identity of the index handler that wrote *)
(* each of its three parts last (nodes, prune, edges).                     *)
(*                                                                         *)
(* Spec is the concurrent coordinator.  SpecStore runs one index handler   *)
(* at a time over the contents of the store (nodes and edges); the        *)
(* get_symbols_in_file handler changes no state and is a function of the   *)
(* store.  The variables of one specification keep their initial value in  *)
(* the others.                                                             *)
(***************************************************************************)
EXTENDS Integers, Sequences, FiniteSets, Bags, TLC

\* ------------------------------------------------------------------ bounds
MaxIndexCalls == 2
\* Longest list of edges one enrichment returns.
MaxEdgeBatch == 2
\* Longest file readSource is given, in bytes, and the largest line number.
MaxFileLen == 4
MaxLine == 2
\* Most notifications the language server sends.
MaxNotifications == 1
\* Most messages written to one stream, and most header lines of a
\* header block that WriteMessage did not write.
MaxMessages == 3
MaxHeaderLines == 2

\* The goroutines that may be inside a handler at the same time.
IndexCallers == {"i1", "i2"}
QueryCallers == {"q1", "q2"}

\* ------------------------------------------------------------- vocabulary
IndexStatusIdle == "idle"
IndexStatusInProgress == "in-progress"
IndexStatusReady == "ready"
IndexStatusFailed == "failed"

NoError == "nil"

Phases == <<"Scan", "BulkUpsertNodes", "PruneStaleFiles", "Enrich", "BulkUpsertEdges">>

\* The store as it was opened, before any index call has written it.
Unwritten == "unwritten"

VARIABLES
    indexStatus,    \* s.indexStatus
    indexError,     \* the last-error kept with the status
    indexReady,     \* s.indexReady: the channel the field currently holds
    closedChans,    \* the channels that have been closed
    chanCount,      \* channels made so far (channel 0 is made by the constructor)
    storeNodes,     \* index handler whose BulkUpsertNodes wrote the store last
    storePruned,    \* index handler whose PruneStaleFiles wrote the store last
    storeEdges,     \* index handler whose BulkUpsertEdges wrote the store last
    ipc,            \* position of each index handler; "reset" and "begin"
                    \* hold the branch taken on the local currentStatus
    ilog,           \* the pipeline operations the call has made, with outcome
    iset,           \* the statuses the call has set, in order
    iresult,        \* the tool result the call returned
    lastSetBy,      \* history: the handler that called setIndexStatus last
    qpc,            \* position of each query handler
    qchan,          \* the channel WaitForIndex is blocked on
    qseen,          \* the status GetIndexStatus returned after a failed wait
    qmid,           \* whether an index call was between its node and its
                    \* edge upsert at the read
    qresult,        \* the tool result the call returned
    indexCalls      \* index calls received so far

coordVars == <<indexStatus, indexError, indexReady, closedChans, chanCount,
               storeNodes, storePruned, storeEdges,
               ipc, ilog, iset, iresult, lastSetBy,
               qpc, qchan, qseen, qmid, qresult, indexCalls>>

\* The contents of the graph store and what one index call worked on
\* (SpecStore).
VARIABLES
    stNodes,        \* nodes table: the stored nodes, one per node ID
    stEdges,        \* edges table: the stored edges with their number of rows
    pnodes,         \* index handler: nodes, the result of the last Scan
    pedges,         \* index handler: edges, the result of the last Enrich
    psummary,       \* index handler: the counts of the summary returned
    restored        \* history: the last BulkUpsertEdges was given an edge
                    \* that was stored already

contentVars == <<stNodes, stEdges, pnodes, pedges, psummary, restored>>

\* readSource (SpecSource).
VARIABLES
    srcFile,        \* the bytes of the file
    srcStart,       \* lineStart
    srcEnd,         \* lineEnd
    srcRest,        \* the bytes the scanner has not consumed
    srcLine,        \* currentLine
    srcFirst,       \* first
    srcOut,         \* builder
    srcpc           \* "loop" or "done"

sourceVars == <<srcFile, srcStart, srcEnd, srcRest, srcLine, srcFirst, srcOut, srcpc>>

\* One LSP client, its callers and its language server (SpecLsp).
VARIABLES
    nextID,         \* the client's request ID counter
    pending,        \* the waiters: request ID -> caller
    callerID,       \* per caller: the ID of its request, 0 before it sends
    callerGot,      \* per caller: the responses its waiter was completed with
    serverInbox,    \* the requests the server has read and not answered
    wire,           \* the server's output the dispatcher has not read
    notified        \* number of notifications the server has sent

lspVars == <<nextID, pending, callerID, callerGot, serverInbox, wire, notified>>

\* One stream of framed messages, its writer and its reader (SpecFraming).
VARIABLES
    fin,            \* history: the foreign header block and body the stream
                    \* started with, NoInput when it started empty
    fstream,        \* the bytes written and not yet read
    fclosed,        \* the writing end is closed
    fwritten,       \* history: the values WriteMessage was called with
    fread           \* history: what the ReadMessage calls returned

frameVars == <<fin, fstream, fclosed, fwritten, fread>>

\* One call of downloadFile (SpecDownload).
VARIABLES
    attempt,        \* attempt
    lastErr,        \* lastErr
    dpc,            \* "attempt", "backoff" or "done"
    dresult,        \* the error returned
    dlog,           \* history: how each attempt made has ended
    dwaits,         \* history: the seconds of each backoff waited out
    dhttp,          \* history: number of requests given to the HTTP client
    dcancel         \* where the call was when ctx was cancelled, "no" if it
                    \* has not been

downloadVars == <<attempt, lastErr, dpc, dresult, dlog, dwaits, dhttp, dcancel>>

\* Two computations of a node ID (SpecNodeID).
VARIABLES
    idArgs,         \* the two (filePath, symbolName) pairs
    idResult        \* the two IDs computed, <<>> before

nodeIDVars == <<idArgs, idResult>>

\* The package manager's directories (SpecPkg): one package, its files
\* under packages/<name>/, its link in bin/ and the files in tmp/.
VARIABLES
    pkgVerDirs,     \* the versions whose version directory exists
    pkgBinaries,    \* the versions whose directory holds the binary
    pkgMetas,       \* the versions whose directory holds .metadata.json
    pkgCurrent,     \* the target of the 'current' link, NoLink without it
    pkgBinLink,     \* the version whose binary bin/<binary> links to, NoLink
                    \* without the link
    pkgTmp,         \* number of files in the tmp directory
    pkgLast,        \* history: the last call, its inputs and what it returned
    pkgOps          \* history: number of calls made

pkgVars ==
    <<pkgVerDirs, pkgBinaries, pkgMetas, pkgCurrent, pkgBinLink, pkgTmp,
      pkgLast, pkgOps>>

\* The LSP binaries: GetLSPMetadata and Downloader.EnsureLSP (SpecLspBin).
VARIABLES
    lspMetadata,    \* the package-level table lspMetadata
    binEnv,         \* the files the calls look at: the custom path, the
                    \* directories of PATH, the cache directory
    binCall,        \* the arguments of the calls and what the network
                    \* answers during them
    binOut          \* history: what the last call has returned and touched

binVars == <<lspMetadata, binEnv, binCall, binOut>>

\* The variables of the tools around the server.
toolVars == <<nodeIDVars, pkgVars, binVars>>

\* The variables outside the server's index state.
ioVars == <<sourceVars, lspVars, frameVars, downloadVars, toolVars>>

\* What the actions of one part leave alone.
sourceRest == <<coordVars, contentVars, lspVars, frameVars, downloadVars, toolVars>>
lspRest == <<coordVars, contentVars, sourceVars, frameVars, downloadVars, toolVars>>
frameRest == <<coordVars, contentVars, sourceVars, lspVars, downloadVars, toolVars>>
downloadRest == <<coordVars, contentVars, sourceVars, lspVars, frameVars, toolVars>>
serverVars == <<coordVars, contentVars, sourceVars, lspVars, frameVars, downloadVars>>
nodeIDRest == <<serverVars, pkgVars, binVars>>
pkgRest == <<serverVars, nodeIDVars, binVars>>
binRest == <<serverVars, nodeIDVars, pkgVars>>

\* The variables the coordinator's handlers leave alone.
auxVars == <<contentVars, ioVars>>

vars == <<coordVars, auxVars>>

statusVars == <<indexStatus, indexError, closedChans>>
chanVars == <<indexReady, chanCount>>
storeVars == <<storeNodes, storePruned, storeEdges>>
indexVars == <<ipc, ilog, iset, iresult, lastSetBy, indexCalls>>
queryVars == <<qpc, qchan, qseen, qmid, qresult>>

CoordInit ==
    /\ indexStatus = IndexStatusIdle
    /\ indexError = NoError
    /\ indexReady = 0
    /\ closedChans = {}
    /\ chanCount = 0
    /\ storeNodes = Unwritten /\ storePruned = Unwritten /\ storeEdges = Unwritten
    /\ ipc = [i \in IndexCallers |-> "idle"]
    /\ ilog = [i \in IndexCallers |-> <<>>]
    /\ iset = [i \in IndexCallers |-> <<>>]
    /\ iresult = [i \in IndexCallers |-> "none"]
    /\ lastSetBy = "nobody"
    /\ qpc = [q \in QueryCallers |-> "idle"]
    /\ qchan = [q \in QueryCallers |-> 0]
    /\ qseen = [q \in QueryCallers |-> [status |-> "none", err |-> NoError]]
    /\ qmid = [q \in QueryCallers |-> FALSE]
    /\ qresult = [q \in QueryCallers |-> "none"]
    /\ indexCalls = 0

ContentInit ==
    /\ stNodes = {}
    /\ stEdges = EmptyBag
    /\ pnodes = {}
    /\ pedges = <<>>
    /\ psummary = [nodes |-> 0, edges |-> 0]
    /\ restored = FALSE

\* readSource before it is called.
SourceIdle ==
    /\ srcFile = <<>> /\ srcStart = 1 /\ srcEnd = 1 /\ srcRest = <<>>
    /\ srcLine = 1 /\ srcFirst = TRUE /\ srcOut = <<>> /\ srcpc = "done"

LspCallers == {"c1", "c2", "c3"}

\* A client that has sent nothing.
LspInit ==
    /\ nextID = 0
    /\ pending = << >>
    /\ callerID = [c \in LspCallers |-> 0]
    /\ callerGot = [c \in LspCallers |-> <<>>]
    /\ serverInbox = {}
    /\ wire = <<>>
    /\ notified = 0

NoInput == [lines |-> <<>>, ended |-> FALSE, body |-> <<>>]

\* An empty stream nobody has written to.
FrameIdle ==
    /\ fin = NoInput /\ fstream = <<>> /\ fclosed = FALSE
    /\ fwritten = <<>> /\ fread = <<>>

NoResult == [kind |-> "none", err |-> NoError]

\* downloadFile is called: "var lastErr error" and attempt := 1.
DownloadInit ==
    /\ attempt = 1
    /\ lastErr = NoError
    /\ dpc = "attempt"
    /\ dresult = NoResult
    /\ dlog = <<>>
    /\ dwaits = <<>>
    /\ dhttp = 0
    /\ dcancel = "no"

\* No node ID has been asked for.
NodeIDIdle == idArgs = <<>> /\ idResult = <<>>

\* NewManager: EnsureDirectories has made the directories, nothing is
\* installed and no call has been made.
NoLink == "none"
NoCall == [op |-> "none"]

PkgInit ==
    /\ pkgVerDirs = {}
    /\ pkgBinaries = {}
    /\ pkgMetas = {}
    /\ pkgCurrent = NoLink
    /\ pkgBinLink = NoLink
    /\ pkgTmp = 0
    /\ pkgLast = NoCall
    /\ pkgOps = 0

\* The placeholder of the URL templates.
Placeholder == "{version}"

\* A release URL template of GitHub and a tarball URL template of npm, as
\* the pieces of text around the placeholders.
GitHubURL(base, file, suffix) ==
    <<base, Placeholder, file, Placeholder, suffix>>
NpmURL(name) ==
    <<"https://registry.npmjs.org/", name, "/-/", name, "-", Placeholder, ".tgz">>

\* var lspMetadata: name, fallback version, binary name and URL templates
\* of the five servers (two of the five platform keys are modelled).
PinnedMetadata ==
    [go |->
        [Name |-> "gopls", Version |-> "v0.21.1", BinaryName |-> "gopls",
         DownloadURLs |->
            [p \in {"linux-amd64", "windows-amd64"} |->
                GitHubURL("https://github.com/golang/tools/releases/download/gopls/",
                          "/gopls-",
                          IF p = "linux-amd64" THEN "-linux-amd64.tar.gz"
                                               ELSE "-windows-amd64.zip")]],
     python |->
        [Name |-> "pyright", Version |-> "1.1.408",
         BinaryName |-> "pyright-langserver",
         DownloadURLs |->
            [p \in {"linux-amd64", "windows-amd64"} |-> NpmURL("pyright")]],
     typescript |->
        [Name |-> "typescript-language-server", Version |-> "5.1.3",
         BinaryName |-> "typescript-language-server",
         DownloadURLs |->
            [p \in {"linux-amd64", "windows-amd64"} |->
                NpmURL("typescript-language-server")]],
     lua |->
        [Name |-> "lua-language-server", Version |-> "3.17.1",
         BinaryName |-> "lua-language-server",
         DownloadURLs |->
            [p \in {"linux-amd64", "windows-amd64"} |->
                GitHubURL("https://github.com/LuaLS/lua-language-server/releases/download/",
                          "/lua-language-server-",
                          IF p = "linux-amd64" THEN "-linux-x64.tar.gz"
                                               ELSE "-win32-x64.zip")]],
     zig |->
        [Name |-> "zls", Version |-> "0.15.1", BinaryName |-> "zls",
         DownloadURLs |->
            [p \in {"linux-amd64", "windows-amd64"} |->
                <<"https://github.com/zigtools/zls/releases/download/",
                  Placeholder,
                  IF p = "linux-amd64" THEN "/zls-linux-x86_64-"
                                       ELSE "/zls-windows-x86_64-",
                  Placeholder,
                  IF p = "linux-amd64" THEN ".tar.gz" ELSE ".zip">>]]]

\* No call for an LSP binary has been made; no custom path, an empty PATH
\* and an empty cache.
BinIdle ==
    /\ lspMetadata = PinnedMetadata
    /\ binEnv = [custom |-> FALSE, path |-> <<>>, cached |-> {}]
    /\ binCall = NoCall
    /\ binOut = NoCall

\* The tools around the server before they are used.
ToolIdle == NodeIDIdle /\ PkgInit /\ BinIdle

\* The server and its helpers before they are used.
ServerIdle ==
    CoordInit /\ ContentInit /\ SourceIdle /\ LspInit /\ FrameIdle /\ DownloadInit

Init == ServerIdle /\ ToolIdle

\* ---------------------------------------------------------- status helpers

\* setIndexStatus: status and last-error change together under the write
\* lock; reaching ready latches the readiness signal (closes the channel the
\* field holds).
setIndexStatus(status, err) ==
    /\ indexStatus' = status
    /\ indexError' = err
    /\ closedChans' = IF status = IndexStatusReady
                      THEN closedChans \cup {indexReady}
                      ELSE closedChans

\* GetIndexStatus: status and last-error read together under the read lock.
GetIndexStatus == [status |-> indexStatus, err |-> indexError]


\* ------------------------------------------------------------ index handler

\* StatusErrorOf with the enrichment failure stored without its error.
StatusErrorOf_EnrichNil(op) ==
    CASE op = "Scan" -> "scan failed"
      [] op = "BulkUpsertNodes" -> "failed to store nodes"
      [] op = "BulkUpsertEdges" -> "failed to store edges"
      [] OTHER -> NoError

\* The error a failed pipeline operation leaves as last-error
\* (the fmt.Errorf wrappers of the handler).
StatusErrorOf(op) ==
    CASE op = "Scan" -> "scan failed"
      [] op = "BulkUpsertNodes" -> "failed to store nodes"
      [] op = "Enrich" -> "LSP enrichment failed"
      [] op = "BulkUpsertEdges" -> "failed to store edges"
      [] OTHER -> NoError

\* The text of the error result the handler returns for a failed operation.
ErrorResultOf(op) ==
    CASE op = "Scan" -> "Scan failed"
      [] op = "BulkUpsertNodes" -> "Failed to store nodes"
      [] op = "Enrich" -> "Enrich failed"
      [] op = "BulkUpsertEdges" -> "Failed to store edges"
      [] OTHER -> "none"

\* ErrorPolicy with the return after a failed node upsert left out.
ErrorPolicy_NodesGoOn(op) ==
    IF op \in {"PruneStaleFiles", "BulkUpsertNodes"} THEN "continue" ELSE "fail"

\* ErrorPolicy with a prune error treated like every other error.
ErrorPolicy_PruneFatal(op) == "fail"

\* ErrorPolicy with the return after a failed scan left out.
ErrorPolicy_ScanGoOn(op) ==
    IF op \in {"PruneStaleFiles", "Scan"} THEN "continue" ELSE "fail"

\* What the handler does when an operation returns an error: a prune error
\* is logged and the run goes on, every other error ends the run.
ErrorPolicy(op) == IF op = "PruneStaleFiles" THEN "continue" ELSE "fail"

PhaseIndex(op) == CHOOSE k \in 1..Len(Phases) : Phases[k] = op

\* AfterPhase with enrichment moved before the prune.
AfterPhase_EnrichFirst(op) ==
    CASE op = "Scan" -> "BulkUpsertNodes"
      [] op = "BulkUpsertNodes" -> "Enrich"
      [] op = "Enrich" -> "PruneStaleFiles"
      [] op = "PruneStaleFiles" -> "BulkUpsertEdges"
      [] OTHER -> "finish"

\* The statement order of the handler: where control goes when an operation
\* has returned and the run goes on.
AfterPhase(op) ==
    IF PhaseIndex(op) < Len(Phases) THEN Phases[PhaseIndex(op) + 1] ELSE "finish"

\* The write a successful store operation of index handler c makes.
StoreWrite(op, c) ==
    /\ storeNodes' = IF op = "BulkUpsertNodes" THEN c ELSE storeNodes
    /\ storePruned' = IF op = "PruneStaleFiles" THEN c ELSE storePruned
    /\ storeEdges' = IF op = "BulkUpsertEdges" THEN c ELSE storeEdges

\* index, entry: read the status under the read lock; a call that finds
\* in-progress returns at once.
IndexCheck(i) ==
    /\ ipc[i] \in {"idle", "done"}
    /\ indexCalls < MaxIndexCalls
    /\ indexCalls' = indexCalls + 1
    /\ ilog' = [ilog EXCEPT ![i] = <<>>]
    /\ iset' = [iset EXCEPT ![i] = <<>>]
    /\ IF indexStatus = IndexStatusInProgress
       THEN /\ ipc' = [ipc EXCEPT ![i] = "done"]
            /\ iresult' = [iresult EXCEPT ![i] = "Indexing already in progress"]
       ELSE /\ ipc' = [ipc EXCEPT ![i] =
                        IF indexStatus \in {IndexStatusReady, IndexStatusFailed}
                        THEN "reset" ELSE "begin"]
            /\ iresult' = [iresult EXCEPT ![i] = "none"]
    /\ UNCHANGED <<statusVars, chanVars, storeVars, lastSetBy, queryVars>>
    /\ UNCHANGED auxVars

\* index, re-index: replace the readiness channel by a fresh open one.
IndexReset(i) ==
    /\ ipc[i] = "reset"
    /\ chanCount' = chanCount + 1
    /\ indexReady' = chanCount + 1
    /\ ipc' = [ipc EXCEPT ![i] = "begin"]
    /\ UNCHANGED <<statusVars, storeVars, ilog, iset, iresult, lastSetBy,
                   indexCalls, queryVars>>
    /\ UNCHANGED auxVars

\* index: setIndexStatus(IndexStatusInProgress, nil).
IndexBegin(i) ==
    /\ ipc[i] = "begin"
    /\ setIndexStatus(IndexStatusInProgress, NoError)
    /\ iset' = [iset EXCEPT ![i] = Append(@, IndexStatusInProgress)]
    /\ lastSetBy' = i
    /\ ipc' = [ipc EXCEPT ![i] = Phases[1]]
    /\ UNCHANGED <<chanVars, storeVars, ilog, iresult, indexCalls, queryVars>>
    /\ UNCHANGED auxVars

\* One pipeline operation of the handler and the branch on its error.
PhaseStep(i, op, ok) ==
    /\ ipc[i] = op
    /\ ilog' = [ilog EXCEPT ![i] = Append(@, [op |-> op, ok |-> ok])]
    /\ IF ok THEN StoreWrite(op, i) ELSE UNCHANGED storeVars
    /\ IF ok \/ ErrorPolicy(op) = "continue"
       THEN /\ ipc' = [ipc EXCEPT ![i] = AfterPhase(op)]
            /\ UNCHANGED <<statusVars, iset, iresult, lastSetBy>>
       ELSE /\ setIndexStatus(IndexStatusFailed, StatusErrorOf(op))
            /\ lastSetBy' = i
            /\ iset' = [iset EXCEPT ![i] = Append(@, IndexStatusFailed)]
            /\ iresult' = [iresult EXCEPT ![i] = ErrorResultOf(op)]
            /\ ipc' = [ipc EXCEPT ![i] = "done"]
    /\ UNCHANGED <<chanVars, indexCalls, queryVars>>
    /\ UNCHANGED auxVars

IndexScan(i) == \E ok \in BOOLEAN : PhaseStep(i, "Scan", ok)
IndexUpsertNodes(i) == \E ok \in BOOLEAN : PhaseStep(i, "BulkUpsertNodes", ok)
IndexPrune(i) == \E ok \in BOOLEAN : PhaseStep(i, "PruneStaleFiles", ok)
IndexEnrich(i) == \E ok \in BOOLEAN : PhaseStep(i, "Enrich", ok)
IndexUpsertEdges(i) == \E ok \in BOOLEAN : PhaseStep(i, "BulkUpsertEdges", ok)

\* IndexFinish with the summary returned and the status left as it is.
IndexFinish_NoReady(i) ==
    /\ ipc[i] = "finish"
    /\ iresult' = [iresult EXCEPT ![i] = "Indexed"]
    /\ ipc' = [ipc EXCEPT ![i] = "done"]
    /\ UNCHANGED <<statusVars, iset, lastSetBy>>
    /\ UNCHANGED <<chanVars, storeVars, ilog, indexCalls, queryVars>>
    /\ UNCHANGED auxVars

\* index, end: setIndexStatus(IndexStatusReady, nil) and the summary.
IndexFinish(i) ==
    /\ ipc[i] = "finish"
    /\ setIndexStatus(IndexStatusReady, NoError)
    /\ iset' = [iset EXCEPT ![i] = Append(@, IndexStatusReady)]
    /\ lastSetBy' = i
    /\ iresult' = [iresult EXCEPT ![i] = "Indexed"]
    /\ ipc' = [ipc EXCEPT ![i] = "done"]
    /\ UNCHANGED <<chanVars, storeVars, ilog, indexCalls, queryVars>>
    /\ UNCHANGED auxVars

\* ----------------------------------------------------- index_status handler

\* The JSON object of index_status: the error key is present only when
\* there is a last-error.
StatusResult(st) ==
    IF st.err # NoError
    THEN [status |-> st.status, error |-> st.err]
    ELSE [status |-> st.status]

\* index_status changes no state: its result now.
IndexStatusResult == StatusResult(GetIndexStatus)

\* ------------------------------------------------------------ query handlers

\* WaitErrorResult with the test of the stored error left out.
WaitErrorResult_NoErrorTest(st) ==
    IF st.status = IndexStatusInProgress
    THEN "Indexing in progress, please try again"
    ELSE "Indexing wait failed"

\* The result of a query tool whose readiness wait returned an error.
WaitErrorResult(st) ==
    IF st.err # NoError THEN "Indexing failed: " \o st.err
    ELSE IF st.status = IndexStatusInProgress
         THEN "Indexing in progress, please try again"
         ELSE "Indexing wait failed"

\* Some index call has upserted its nodes and not yet its edges.
MidWrite ==
    \E i \in IndexCallers : ipc[i] \in {"PruneStaleFiles", "Enrich", "BulkUpsertEdges"}

\* WaitForIndex, entry: the wait blocks on the channel the field holds now.
QueryStart(q) ==
    /\ qpc[q] \in {"idle", "done"}
    /\ qchan' = [qchan EXCEPT ![q] = indexReady]
    /\ qseen' = [qseen EXCEPT ![q] = [status |-> "none", err |-> NoError]]
    /\ qmid' = [qmid EXCEPT ![q] = FALSE]
    /\ qresult' = [qresult EXCEPT ![q] = "none"]
    /\ qpc' = [qpc EXCEPT ![q] = "waiting"]
    /\ UNCHANGED <<statusVars, chanVars, storeVars, indexVars>>
    /\ UNCHANGED auxVars

\* WaitForIndex returns nil: the channel it blocks on is closed.
QueryReleased(q) ==
    /\ qpc[q] = "waiting"
    /\ qchan[q] \in closedChans
    /\ qpc' = [qpc EXCEPT ![q] = "read"]
    /\ UNCHANGED <<statusVars, chanVars, storeVars, indexVars,
                   qchan, qseen, qmid, qresult>>
    /\ UNCHANGED auxVars

\* WaitForIndex returns the context's error (30 s timeout or cancellation):
\* the handler answers from GetIndexStatus and does not read the store.
QueryWaitFailed(q) ==
    /\ qpc[q] = "waiting"
    /\ qseen' = [qseen EXCEPT ![q] = GetIndexStatus]
    /\ qresult' = [qresult EXCEPT ![q] = WaitErrorResult(GetIndexStatus)]
    /\ qpc' = [qpc EXCEPT ![q] = "done"]
    /\ UNCHANGED <<statusVars, chanVars, storeVars, indexVars,
                   qchan, qmid>>
    /\ UNCHANGED auxVars

\* The store query of the tool and its result.  The handlers of
\* get_symbols_in_file, find_impact and get_symbol share the wait above and
\* differ only in the store operation they call here (GetSymbolsInFile,
\* FindImpact, GetSymbolLocation).
QueryRead(q) ==
    /\ qpc[q] = "read"
    /\ qmid' = [qmid EXCEPT ![q] = MidWrite]
    /\ qresult' = [qresult EXCEPT ![q] = "store result"]
    /\ qpc' = [qpc EXCEPT ![q] = "done"]
    /\ UNCHANGED <<statusVars, chanVars, storeVars, indexVars, qchan, qseen>>
    /\ UNCHANGED auxVars

\* ------------------------------------------------------------ specification

Next ==
    \/ \E i \in IndexCallers :
          \/ IndexCheck(i)
          \/ IndexReset(i)
          \/ IndexBegin(i)
          \/ IndexScan(i)
          \/ IndexUpsertNodes(i)
          \/ IndexPrune(i)
          \/ IndexEnrich(i)
          \/ IndexUpsertEdges(i)
          \/ IndexFinish(i)
    \/ \E q \in QueryCallers :
          \/ QueryStart(q)
          \/ QueryReleased(q)
          \/ QueryWaitFailed(q)
          \/ QueryRead(q)

Spec == Init /\ [][Next]_vars

\* ------------------------------------------------------------------ claims

\* An index call is in flight from its status check until it has set ready
\* or failed.
InFlight(i) == ipc[i] \notin {"idle", "done"}

Failures(i) == {k \in 1..Len(ilog[i]) : ~ilog[i][k].ok}
FailedAt(i, op) == \E k \in 1..Len(ilog[i]) : ilog[i][k] = [op |-> op, ok |-> FALSE]
WaitFailed(q) == qpc[q] = "done" /\ qseen[q].status # "none"

\* C1: while one index call is in flight every other index call is rejected,
\* so at no instant are two index calls in flight.
C1_AtMostOneIndexInFlight ==
    \A i, j \in IndexCallers : (i # j /\ InFlight(i)) => ~InFlight(j)

\* C2: the index status changes only along idle->in-progress,
\* in-progress->ready, in-progress->failed, ready->in-progress and
\* failed->in-progress.
C2_StatusTransitions ==
    [][indexStatus' # indexStatus =>
         <<indexStatus, indexStatus'>> \in
            {<<IndexStatusIdle, IndexStatusInProgress>>,
             <<IndexStatusInProgress, IndexStatusReady>>,
             <<IndexStatusInProgress, IndexStatusFailed>>,
             <<IndexStatusReady, IndexStatusInProgress>>,
             <<IndexStatusFailed, IndexStatusInProgress>>}]_vars

\* C3: no query tool reads the store while an index call has upserted its
\* nodes and not yet its edges.
C3_QueryNeverReadsMidRun == \A q \in QueryCallers : ~qmid[q]

\* C4: whenever the readiness signal is latched the index status is ready.
C4_LatchedOnlyWhenReady ==
    indexReady \in closedChans => indexStatus = IndexStatusReady

\* C5: once an index run has completed with status ready and latched the
\* readiness signal, no query call is left blocked: the wait of every
\* waiting call can return.
C5_AllWaitersReleased ==
    (indexStatus = IndexStatusReady /\ indexReady \in closedChans) =>
        \A q \in QueryCallers : qpc[q] = "waiting" => qchan[q] \in closedChans

\* C6: the operations of one index run are made in the order Scan,
\* BulkUpsertNodes, PruneStaleFiles, Enrich, BulkUpsertEdges, and the run
\* sets ready only after BulkUpsertEdges has returned without error.
C6_PipelineOrder ==
    \A i \in IndexCallers :
        /\ Len(ilog[i]) <= 5
        /\ \A k \in 1..Len(ilog[i]) :
              ilog[i][k].op = <<"Scan", "BulkUpsertNodes", "PruneStaleFiles",
                                "Enrich", "BulkUpsertEdges">>[k]
        /\ (\E k \in 1..Len(iset[i]) : iset[i][k] = IndexStatusReady) =>
              /\ Len(ilog[i]) = 5
              /\ ilog[i][5] = [op |-> "BulkUpsertEdges", ok |-> TRUE]
C6_Witness ==
    \E i \in IndexCallers :
        /\ ipc[i] = "done" /\ iresult[i] = "Indexed"
        /\ Len(ilog[i]) = 5 /\ Failures(i) = {}

\* C7: a query tool whose readiness wait ended without readiness returns no
\* store result: it returns the stored error when the status is failed and
\* "Indexing in progress, please try again" when it is in-progress.
C7_WaitFailureResult ==
    \A q \in QueryCallers : WaitFailed(q) =>
        /\ qresult[q] # "store result"
        /\ ~qmid[q]
        /\ qseen[q].status = IndexStatusFailed =>
              /\ qseen[q].err # NoError
              /\ qresult[q] = "Indexing failed: " \o qseen[q].err
        /\ qseen[q].status = IndexStatusInProgress =>
              qresult[q] = "Indexing in progress, please try again"
C7_Witness ==
    \E q, r \in QueryCallers :
        /\ WaitFailed(q) /\ qseen[q].status = IndexStatusFailed
        /\ WaitFailed(r) /\ qseen[r].status = IndexStatusInProgress

\* C8: an index run whose BulkUpsertNodes or BulkUpsertEdges returned an
\* error has made no later operation, has set failed and has never set
\* ready.
C8_StoreWriteErrorIsFatal ==
    \A i \in IndexCallers : \A k \in 1..Len(ilog[i]) :
        (ilog[i][k].op \in {"BulkUpsertNodes", "BulkUpsertEdges"} /\ ~ilog[i][k].ok) =>
            /\ k = Len(ilog[i])
            /\ ipc[i] = "done"
            /\ iset[i] = <<IndexStatusInProgress, IndexStatusFailed>>
            /\ iresult[i] # "Indexed"
C8_Witness ==
    /\ \E i \in IndexCallers : FailedAt(i, "BulkUpsertNodes")
    /\ \E i \in IndexCallers : FailedAt(i, "BulkUpsertEdges")

\* C9: an index run whose PruneStaleFiles returned an error goes on with
\* Enrich and BulkUpsertEdges; it sets failed only when one of those two
\* fails, and ends ready otherwise.
C9_PruneErrorNotFatal ==
    \A i \in IndexCallers : FailedAt(i, "PruneStaleFiles") =>
        /\ ipc[i] \in {"Enrich", "BulkUpsertEdges", "finish", "done"}
        /\ ipc[i] = "done" => Len(ilog[i]) >= 4
        /\ (\E k \in 1..Len(iset[i]) : iset[i][k] = IndexStatusFailed) =>
              (FailedAt(i, "Enrich") \/ FailedAt(i, "BulkUpsertEdges"))
        /\ (ipc[i] = "done" /\ Failures(i) = {3}) =>
              /\ iset[i] = <<IndexStatusInProgress, IndexStatusReady>>
              /\ iresult[i] = "Indexed"
              /\ Len(ilog[i]) = 5
C9_Witness ==
    \E i \in IndexCallers :
        /\ FailedAt(i, "PruneStaleFiles")
        /\ ipc[i] = "done" /\ iresult[i] = "Indexed"

\* C10: the status carries a last-error exactly when it is failed, and
\* index_status reports it exactly then; as long as no index call has set
\* the status since, an index call that returned an error has left the
\* status failed with the error of the operation that failed.
C10_ErrorResults ==
    {<<"Scan failed", "scan failed">>,
     <<"Failed to store nodes", "failed to store nodes">>,
     <<"Enrich failed", "LSP enrichment failed">>,
     <<"Failed to store edges", "failed to store edges">>}
C10_ErrorIffFailed ==
    /\ (indexError # NoError) <=> (indexStatus = IndexStatusFailed)
    /\ IndexStatusResult.status = indexStatus
    /\ ("error" \in DOMAIN IndexStatusResult) <=> (indexStatus = IndexStatusFailed)
    /\ indexStatus = IndexStatusFailed => IndexStatusResult.error = indexError
    /\ \A i \in IndexCallers :
          (ipc[i] = "done" /\ lastSetBy = i
             /\ iresult[i] \notin {"Indexed", "Indexing already in progress"}) =>
                /\ indexStatus = IndexStatusFailed
                /\ <<iresult[i], indexError>> \in C10_ErrorResults
                /\ IndexStatusResult.error = indexError
C10_Witness ==
    /\ indexStatus = IndexStatusFailed
    /\ indexError = "LSP enrichment failed"
    /\ \E i \in IndexCallers : ipc[i] = "done" /\ iresult[i] = "Enrich failed"


\* ======================================================================
\* The contents of the store: one index handler at a time (SpecStore)
\* ======================================================================

\* SHA-256 in hex, up to collisions: the text hashed stands for its digest.
Sha256Hex(text) == <<"sha256", text>>

\* GenerateNodeID: the digest of "filePath:symbolName".
GenerateNodeID(filePath, symbolName) == Sha256Hex(filePath \o ":" \o symbolName)

\* A graph.Node (SymbolURI left out).
Node(file, name, kind, ls, le) ==
    [ID |-> GenerateNodeID(file, name), Name |-> name, Kind |-> kind,
     FilePath |-> file, LineStart |-> ls, LineEnd |-> le,
     ColStart |-> 1, ColEnd |-> 2]

\* The symbols the scanner can find in the workspace: two in a.go, of which
\* Bar is found at one of two places, and one in b.go.
NodeUniverse ==
    { Node("/abs/a.go", "Foo", "function", 6, 8),
      Node("/abs/a.go", "Bar", "type", 2, 4),
      Node("/abs/a.go", "Bar", "type", 10, 12),
      Node("/abs/b.go", "Baz", "function", 1, 3) }

\* The results of Scan: each file present or absent, every symbol of a
\* present file found once.
ScanResults ==
    { ns \in SUBSET NodeUniverse :
        /\ \A n, m \in ns : n.ID = m.ID => n = m
        /\ (\E n \in ns : n.Name = "Foo") <=> (\E n \in ns : n.Name = "Bar") }

\* The paths get_symbols_in_file is asked for; no scan finds /abs/x.go.
QueryPaths == {"/abs/a.go", "/abs/b.go", "/abs/x.go"}

RelationCalls == "calls"
RelationReferences == "references"

\* A graph.Edge.
Edge(src, tgt, rel) == [SourceID |-> src, TargetID |-> tgt, Relation |-> rel]

\* The edges the language servers can report among the symbols above.
EdgeUniverse ==
    { Edge(GenerateNodeID("/abs/a.go", "Foo"), GenerateNodeID("/abs/b.go", "Baz"), RelationCalls),
      Edge(GenerateNodeID("/abs/a.go", "Foo"), GenerateNodeID("/abs/b.go", "Baz"), RelationReferences),
      Edge(GenerateNodeID("/abs/b.go", "Baz"), GenerateNodeID("/abs/a.go", "Bar"), RelationCalls) }

IDsOf(nodes) == { n.ID : n \in nodes }

\* The sequences without repetition of at most k elements of S.
SeqsOf(S, k) ==
    UNION { { q \in [1..n -> S] : \A a, b \in 1..n : q[a] = q[b] => a = b } : n \in 0..k }

\* Enrich(nodes, store): edges from the scanned nodes to nodes the store
\* knows, deduplicated by (source, target, relation).
EnrichResults(nodes, stored) ==
    SeqsOf({ e \in EdgeUniverse : /\ e.SourceID \in IDsOf(nodes)
                                  /\ e.TargetID \in IDsOf(stored) },
           MaxEdgeBatch)

\* index handler, "collect valid files": the file paths of the scanned nodes.
ValidFileList(nodes) == { n.FilePath : n \in nodes }

\* BulkUpsertNodes: insert or replace each node by its ID.
BulkUpsertNodes(table, nodes) ==
    { n \in table : n.ID \notin IDsOf(nodes) } \cup nodes

\* PruneStaleFiles, nodes: remove every node whose file is not valid.
PruneNodes(table, valid) == { n \in table : n.FilePath \in valid }

\* PruneStaleFiles, edges: remove every edge that references a removed node.
PruneEdges(edges, table, valid) ==
    LET removed == IDsOf(table \ PruneNodes(table, valid))
        kept == { e \in BagToSet(edges) :
                     e.SourceID \notin removed /\ e.TargetID \notin removed }
    IN [e \in kept |-> edges[e]]

RECURSIVE InsertEdges_NoCollapse(_, _)
\* BulkUpsertEdges as a plain insert of every edge of the batch.
InsertEdges_NoCollapse(edges, batch) ==
    IF batch = <<>> THEN edges
    ELSE InsertEdges_NoCollapse(edges (+) SetToBag({Head(batch)}), Tail(batch))

RECURSIVE InsertEdges(_, _)
\* BulkUpsertEdges: insert each edge of the batch; an edge whose
\* (source, target, relation) triple is stored already is collapsed.
InsertEdges(edges, batch) ==
    IF batch = <<>> THEN edges
    ELSE InsertEdges(IF BagIn(Head(batch), edges) THEN edges
                     ELSE edges (+) SetToBag({Head(batch)}),
                     Tail(batch))

\* Summary with the stored nodes counted in place of the scanned ones.
Summary_CountStored(nodes, edges) ==
    [nodes |-> Cardinality(stNodes), edges |-> Len(edges)]

\* The counts of "Indexed %d nodes and %d edges in %.2fs".
Summary(nodes, edges) == [nodes |-> Cardinality(nodes), edges |-> Len(edges)]

\* The operation the run ends at: the first one that returns an error the
\* handler does not go on from; "finish" when there is none.
RECURSIVE StopFrom(_, _)
StopFrom(op, errs) ==
    IF op = "finish" THEN "finish"
    ELSE IF op \in errs /\ ErrorPolicy(op) = "fail" THEN op
    ELSE StopFrom(AfterPhase(op), errs)

\* The operations a run calls, in order, with their outcome.
RECURSIVE RunLog(_, _)
RunLog(op, errs) ==
    IF op = "finish" THEN <<>>
    ELSE <<[op |-> op, ok |-> op \notin errs]>> \o
         (IF op \in errs /\ ErrorPolicy(op) = "fail" THEN <<>>
          ELSE RunLog(AfterPhase(op), errs))

\* op is called in the run of this log and returns no error.
Applied(op, log) == \E k \in 1..Len(log) : log[k] = [op |-> op, ok |-> TRUE]

\* The operations that return an error in one run: none, one, or the prune
\* and one more (an error after the one that ends the run is never seen).
ErrorChoices ==
    {{}} \cup { {Phases[k]} : k \in 1..Len(Phases) }
         \cup { {"PruneStaleFiles", op} : op \in {"Enrich", "BulkUpsertEdges"} }

\* index, from Scan to the return, as one step: errs are the operations
\* that return an error if called, scan is what Scan finds.
IndexPipeline(i) ==
    /\ ipc[i] = Phases[1]
    /\ \E errs \in ErrorChoices, scan \in ScanResults :
        LET stop == StopFrom(Phases[1], errs)
            log == RunLog(Phases[1], errs)
            nodes == IF Applied("Scan", log) THEN scan ELSE {}
            valid == ValidFileList(nodes)
            upserted == IF Applied("BulkUpsertNodes", log)
                        THEN BulkUpsertNodes(stNodes, nodes) ELSE stNodes
            pruned == Applied("PruneStaleFiles", log)
            nodesTable == IF pruned THEN PruneNodes(upserted, valid) ELSE upserted
            edgesTable == IF pruned THEN PruneEdges(stEdges, upserted, valid) ELSE stEdges
        IN \E edges \in (IF Applied("Enrich", log)
                         THEN EnrichResults(nodes, nodesTable) ELSE {<<>>}) :
            /\ pnodes' = nodes
            /\ pedges' = edges
            /\ stNodes' = nodesTable
            /\ stEdges' = IF Applied("BulkUpsertEdges", log)
                          THEN InsertEdges(edgesTable, edges) ELSE edgesTable
            /\ restored' = /\ Applied("BulkUpsertEdges", log)
                            /\ \E k \in 1..Len(edges) : BagIn(edges[k], edgesTable)
            /\ ilog' = [ilog EXCEPT ![i] = log]
            /\ storeNodes' = IF Applied("BulkUpsertNodes", log) THEN i ELSE storeNodes
            /\ storePruned' = IF Applied("PruneStaleFiles", log) THEN i ELSE storePruned
            /\ storeEdges' = IF Applied("BulkUpsertEdges", log) THEN i ELSE storeEdges
            /\ IF stop = "finish"
               THEN /\ setIndexStatus(IndexStatusReady, NoError)
                    /\ iset' = [iset EXCEPT ![i] = Append(@, IndexStatusReady)]
                    /\ iresult' = [iresult EXCEPT ![i] = "Indexed"]
                    /\ psummary' = Summary(nodes, edges)
               ELSE /\ setIndexStatus(IndexStatusFailed, StatusErrorOf(stop))
                    /\ iset' = [iset EXCEPT ![i] = Append(@, IndexStatusFailed)]
                    /\ iresult' = [iresult EXCEPT ![i] = ErrorResultOf(stop)]
                    /\ UNCHANGED psummary
    /\ lastSetBy' = i
    /\ ipc' = [ipc EXCEPT ![i] = "done"]
    /\ UNCHANGED <<chanVars, indexCalls, queryVars, ioVars>>

\* GetSymbolsInFile: the nodes of the path in document order.
GetSymbolsInFile(table, path) ==
    LET found == { n \in table : n.FilePath = path }
    IN CHOOSE q \in [1..Cardinality(found) -> found] :
           \A a, b \in 1..Cardinality(found) :
               a < b => q[a].LineStart < q[b].LineStart

\* fmt.Sprintf("%d:%d-%d:%d", ...): the four numbers of the range.
RangeOf(n) == <<n.LineStart, n.ColStart, n.LineEnd, n.ColEnd>>

SimpleNode(n) == [name |-> n.Name, kind |-> n.Kind, range |-> RangeOf(n)]

\* The JSON of a go nil slice: null.
NilSlice == [json |-> "null", items |-> <<>>]

\* "var simple []SimpleNode", the appends and json.MarshalIndent: a slice
\* nothing was appended to is nil and is encoded as null.
MarshalSimple(nodes) ==
    IF Len(nodes) = 0 THEN NilSlice
    ELSE [json |-> "array", items |-> [k \in 1..Len(nodes) |-> SimpleNode(nodes[k])]]

\* get_symbols_in_file once WaitForIndex has returned nil: the handler
\* changes no state, this is the JSON it returns now.
SymbolsInFileResult(path) == MarshalSimple(GetSymbolsInFile(stNodes, path))

StoreNext ==
    \/ IndexCheck("i1")
    \/ IndexReset("i1")
    \/ IndexBegin("i1")
    \/ IndexPipeline("i1")

SpecStore == Init /\ [][StoreNext]_vars


\* An index call has returned its summary and no later call has started.
RunEndedReady(i) == ipc[i] = "done" /\ iresult[i] = "Indexed"

\* C11: after an index run that ends with status ready, no stored node has a
\* file path outside the file paths of the nodes scanned in that run, no
\* stored edge has an endpoint that is not a stored node, and
\* get_symbols_in_file returns no symbol for a file the scan did not find.
C11_NoStaleDataAfterReadyRun ==
    \A i \in IndexCallers :
        RunEndedReady(i) =>
            /\ \A n \in stNodes : n.FilePath \in ValidFileList(pnodes)
            /\ \A e \in BagToSet(stEdges) :
                   e.SourceID \in IDsOf(stNodes) /\ e.TargetID \in IDsOf(stNodes)
            /\ \A path \in QueryPaths \ ValidFileList(pnodes) :
                   SymbolsInFileResult(path).items = <<>>


\* C12: after any sequence of BulkUpsertEdges calls, repeated index runs
\* that produce the same edges again included, the store holds at most one
\* edge for each (source, target, relation) triple.
C12_OneEdgePerTriple ==
    \A e \in BagToSet(stEdges) : CopiesIn(e, stEdges) = 1

\* A second run has upserted an edge the first run had stored.
C12_Witness ==
    /\ restored
    /\ \E i \in IndexCallers : RunEndedReady(i)
    /\ \E k \in 1..Len(pedges) : BagIn(pedges[k], stEdges)


\* C13: a successful index call returns the summary with N the number of
\* nodes the scan produced and M the number of edges the enrichment
\* produced, and leaves the status ready; with nothing scanned N and M are 0.
C13_SummaryCounts ==
    \A i \in IndexCallers :
        RunEndedReady(i) =>
            /\ psummary.nodes = Cardinality(pnodes)
            /\ psummary.edges = Len(pedges)
            /\ indexStatus = IndexStatusReady
            /\ pnodes = {} => psummary = [nodes |-> 0, edges |-> 0]

\* A successful run whose scan found fewer nodes than the store holds and
\* whose enrichment found edges.
C13_Witness ==
    /\ \E i \in IndexCallers : RunEndedReady(i)
    /\ psummary.nodes > 0 /\ psummary.edges > 0
    /\ Cardinality(stNodes) > psummary.nodes


\* C14: when the index is ready get_symbols_in_file returns a JSON array
\* with exactly one {name, kind, range} entry per stored node of the path:
\* the empty array [] when the store holds no node for it.
C14_SymbolsArrayPerStoredNode ==
    indexReady \in closedChans =>
        \A path \in QueryPaths :
            LET found == { n \in stNodes : n.FilePath = path }
                result == SymbolsInFileResult(path)
            IN /\ result.json = "array"
               /\ Len(result.items) = Cardinality(found)
               /\ \A n \in found : \E k \in 1..Len(result.items) :
                      result.items[k] =
                          [name |-> n.Name, kind |-> n.Kind,
                           range |-> <<n.LineStart, n.ColStart, n.LineEnd, n.ColEnd>>]


\* ======================================================================
\* readSource: the lines lineStart..lineEnd of a file (SpecSource)
\* ======================================================================

CR == "\\r"
LF == "\\n"

\* The bytes of a file: two letters, carriage return and line feed.
Bytes == {"x", "y", CR, LF}

\* The sequences of at most k elements of S.
SeqsUpTo(S, k) == UNION { [1..n -> S] : n \in 0..k }

\* The index of the first line feed of data, 0 when there is none.
IndexLF(data) ==
    IF \E k \in 1..Len(data) : data[k] = LF
    THEN CHOOSE k \in 1..Len(data) :
             data[k] = LF /\ \A j \in 1..(k - 1) : data[j] # LF
    ELSE 0

\* bufio.dropCR: a trailing carriage return is dropped.
DropCR(line) ==
    IF Len(line) > 0 /\ line[Len(line)] = CR
    THEN SubSeq(line, 1, Len(line) - 1) ELSE line

\* bufio.ScanLines: the next token is the data up to the first line feed,
\* or all the data at the end of the file, without its trailing carriage
\* return; the line feed is consumed with it.
ScanToken(data) ==
    IF IndexLF(data) = 0 THEN DropCR(data)
    ELSE DropCR(SubSeq(data, 1, IndexLF(data) - 1))

ScanAdvance(data) ==
    IF IndexLF(data) = 0 THEN <<>>
    ELSE SubSeq(data, IndexLF(data) + 1, Len(data))

\* readSource is called: the file is opened and the scanner made.
SourceInit ==
    /\ CoordInit /\ ContentInit
    /\ srcFile \in SeqsUpTo(Bytes, MaxFileLen)
    /\ srcStart \in 1..MaxLine
    /\ srcEnd \in srcStart..MaxLine
    /\ srcRest = srcFile
    /\ srcLine = 1 /\ srcFirst = TRUE /\ srcOut = <<>> /\ srcpc = "loop"
    /\ LspInit /\ FrameIdle /\ DownloadInit /\ ToolIdle

\* One iteration of "for scanner.Scan()": a line in the range is written to
\* the builder after a line feed unless it is the first written; the loop
\* is left at the first line after lineEnd.
ReadSourceLine ==
    /\ srcpc = "loop"
    /\ srcRest # <<>>
    /\ srcRest' = ScanAdvance(srcRest)
    /\ IF srcLine >= srcStart /\ srcLine <= srcEnd
       THEN /\ srcOut' = srcOut \o (IF srcFirst THEN <<>> ELSE <<LF>>) \o ScanToken(srcRest)
            /\ srcFirst' = FALSE
       ELSE UNCHANGED <<srcOut, srcFirst>>
    /\ IF srcLine > srcEnd
       THEN srcpc' = "done" /\ UNCHANGED srcLine
       ELSE srcLine' = srcLine + 1 /\ UNCHANGED srcpc
    /\ UNCHANGED <<srcFile, srcStart, srcEnd, sourceRest>>

\* scanner.Scan() returns false at the end of the file; scanner.Err() is
\* nil and builder.String() is returned.
ReadSourceReturn ==
    /\ srcpc = "loop"
    /\ srcRest = <<>>
    /\ srcpc' = "done"
    /\ UNCHANGED <<srcFile, srcStart, srcEnd, srcRest, srcLine, srcFirst, srcOut,
                   sourceRest>>

SourceNext == ReadSourceLine \/ ReadSourceReturn

SpecSource == SourceInit /\ [][SourceNext]_vars

\* The lines of a text: what stands between its line feeds.
RECURSIVE TextLines(_)
TextLines(text) ==
    IF text = <<>> THEN <<>>
    ELSE IF IndexLF(text) = 0 THEN <<text>>
    ELSE <<SubSeq(text, 1, IndexLF(text) - 1)>> \o
         TextLines(SubSeq(text, IndexLF(text) + 1, Len(text)))

\* The text of the lines a..b of a file, their line feeds between them.
RECURSIVE TextOfLines(_, _, _)
TextOfLines(lines, a, b) ==
    IF a > b THEN <<>>
    ELSE IF a = b THEN lines[a]
    ELSE lines[a] \o <<LF>> \o TextOfLines(lines, a + 1, b)

\* C15: the source readSource returns is the file's text from line
\* line_start to line line_end inclusive, for every file content and every
\* 1 <= line_start <= line_end (a carriage return that ends the last line
\* is counted with its line ending, not with the text).
C15_SourceIsExactText ==
    (srcpc = "done" /\ srcFile # <<>> /\ srcEnd <= Len(TextLines(srcFile))) =>
        LET exact == TextOfLines(TextLines(srcFile), srcStart, srcEnd)
        IN srcOut = exact \/ srcOut \o <<CR>> = exact


\* ======================================================================
\* Request/response correlation of one LSP client (SpecLsp)
\* ======================================================================

\* A JSON-RPC request: each caller asks for something of its own.
Request(id, method, params) ==
    [JSONRPC |-> "2.0", ID |-> id, Method |-> method, Params |-> params]

\* A JSON-RPC response.
Response(id, result) == [JSONRPC |-> "2.0", ID |-> id, Result |-> result]

\* A notification of the server: a message without an id.
Notification == [JSONRPC |-> "2.0", Method |-> "window/logMessage"]

\* What the server answers to a request.
ResultOf(req) == <<"result of", req.Method, req.Params>>

\* A caller sends its request: the next ID is taken, a waiter is recorded
\* under it and the request is written to the server.
LspSend(c) ==
    /\ callerID[c] = 0
    /\ nextID' = nextID + 1
    /\ callerID' = [callerID EXCEPT ![c] = nextID + 1]
    /\ pending' = [id \in DOMAIN pending \cup {nextID + 1} |->
                      IF id = nextID + 1 THEN c ELSE pending[id]]
    /\ serverInbox' = serverInbox \cup {Request(nextID + 1, "textDocument/references", c)}
    /\ UNCHANGED <<callerGot, wire, notified, lspRest>>

\* The server answers any one of the requests it holds.
ServerReply ==
    /\ \E req \in serverInbox :
        /\ serverInbox' = serverInbox \ {req}
        /\ wire' = Append(wire, Response(req.ID, ResultOf(req)))
    /\ UNCHANGED <<nextID, pending, callerID, callerGot, notified, lspRest>>

\* The server sends a notification.
ServerNotify ==
    /\ notified < MaxNotifications
    /\ notified' = notified + 1
    /\ wire' = Append(wire, Notification)
    /\ UNCHANGED <<nextID, pending, callerID, callerGot, serverInbox, lspRest>>

\* WaiterOf with the oldest waiter served whatever the id of the message.
WaiterOf_Oldest(msg) ==
    IF "ID" \in DOMAIN msg /\ DOMAIN pending # {}
    THEN {CHOOSE id \in DOMAIN pending : \A other \in DOMAIN pending : id <= other}
    ELSE {}

\* The waiter a message read by the dispatcher completes: the one recorded
\* under its id; none for a notification or an id nobody waits for.
WaiterOf(msg) ==
    IF "ID" \in DOMAIN msg /\ msg.ID \in DOMAIN pending THEN {msg.ID} ELSE {}

\* The dispatcher reads one message and routes it.
Dispatch ==
    /\ wire # <<>>
    /\ wire' = Tail(wire)
    /\ IF WaiterOf(Head(wire)) = {}
       THEN UNCHANGED <<pending, callerGot>>
       ELSE LET id == CHOOSE w \in WaiterOf(Head(wire)) : TRUE
            IN /\ callerGot' = [callerGot EXCEPT ![pending[id]] = Append(@, Head(wire))]
               /\ pending' = [w \in DOMAIN pending \ {id} |-> pending[w]]
    /\ UNCHANGED <<nextID, callerID, serverInbox, notified, lspRest>>

LspNext ==
    \/ \E c \in LspCallers : LspSend(c)
    \/ ServerReply
    \/ ServerNotify
    \/ Dispatch

SpecLsp == Init /\ [][LspNext]_vars

\* C16: for K concurrent requests on one client, each with a distinct ID,
\* every caller receives the response whose id is its own request's ID and
\* no other, under every order of the server's replies; once every reply
\* has been dispatched every caller has its response.
C16_EachCallerGetsItsOwnResponse ==
    /\ \A c, d \in LspCallers : (c # d /\ callerID[c] # 0) => callerID[c] # callerID[d]
    /\ \A c \in LspCallers :
        /\ Len(callerGot[c]) <= 1
        /\ \A k \in 1..Len(callerGot[c]) :
               /\ callerID[c] # 0
               /\ callerGot[c][k].ID = callerID[c]
               /\ callerGot[c][k].Result = <<"result of", "textDocument/references", c>>
    /\ (serverInbox = {} /\ wire = <<>>) =>
           \A c \in LspCallers : callerID[c] # 0 => Len(callerGot[c]) = 1

\* The request sent last has its response while the request sent first
\* still waits: the server has reordered its replies.
C16_Witness ==
    \E c, d \in LspCallers :
        /\ callerID[c] = 3 /\ Len(callerGot[c]) = 1
        /\ callerID[d] = 1 /\ callerGot[d] = <<>> /\ 1 \in DOMAIN pending


\* ======================================================================
\* Message framing: WriteMessage and ReadMessage on one stream (SpecFraming)
\* ======================================================================
\* A stream is a sequence of bytes, each a one-character string; the header
\* names "Content-Length" and "Content-Type" stand for their bytes.

WhiteSpace == {" ", "\t", CR, LF}

Digits == <<"0", "1", "2", "3", "4", "5", "6", "7", "8", "9">>

IsDigit(ch) == \E k \in 1..Len(Digits) : Digits[k] = ch

DigitValue(ch) == (CHOOSE k \in 1..Len(Digits) : Digits[k] = ch) - 1

\* fmt's %d of a length.
RECURSIVE Itoa(_)
Itoa(n) ==
    IF n < Len(Digits) THEN <<Digits[n + 1]>>
    ELSE Itoa(n \div Len(Digits)) \o <<Digits[(n % Len(Digits)) + 1]>>

RECURSIVE DigitsValue(_)
DigitsValue(text) ==
    IF text = <<>> THEN 0
    ELSE DigitsValue(SubSeq(text, 1, Len(text) - 1)) * Len(Digits)
         + DigitValue(text[Len(text)])

\* strconv.Atoi: an optional sign and one decimal digit or more.
Atoi(text) ==
    LET signed == Len(text) > 0 /\ text[1] \in {"-", "+"}
        digits == IF signed THEN Tail(text) ELSE text
    IN IF digits # <<>> /\ \A k \in 1..Len(digits) : IsDigit(digits[k])
       THEN [ok |-> TRUE,
             n |-> IF signed /\ text[1] = "-" THEN 0 - DigitsValue(digits)
                   ELSE DigitsValue(digits)]
       ELSE [ok |-> FALSE, n |-> 0]

\* strings.TrimSpace.
RECURSIVE TrimSpace(_)
TrimSpace(text) ==
    IF text = <<>> THEN text
    ELSE IF Head(text) \in WhiteSpace THEN TrimSpace(Tail(text))
    ELSE IF text[Len(text)] \in WhiteSpace THEN TrimSpace(SubSeq(text, 1, Len(text) - 1))
    ELSE text

\* strings.SplitN(line, ": ", 2).
SplitN2(line) ==
    LET seps == { k \in 1..(Len(line) - 1) : line[k] = ":" /\ line[k + 1] = " " }
    IN IF seps = {} THEN <<line>>
       ELSE LET k == CHOOSE j \in seps : \A other \in seps : j <= other
            IN <<SubSeq(line, 1, k - 1), SubSeq(line, k + 2, Len(line))>>

\* r.ReadString('\n'): the bytes up to the first line feed and the line feed;
\* io.EOF when the data ends before one.
ReadString(data) ==
    IF IndexLF(data) = 0 THEN [line |-> data, rest |-> <<>>, eof |-> TRUE]
    ELSE [line |-> SubSeq(data, 1, IndexLF(data)),
          rest |-> SubSeq(data, IndexLF(data) + 1, Len(data)), eof |-> FALSE]

\* ReadMessage, "1. Read Headers": the loop over the header lines, with the
\* content length found so far.
RECURSIVE ReadHeaders(_, _)
ReadHeaders(data, contentLength) ==
    LET r == ReadString(data)
        line == TrimSpace(r.line)
        parts == SplitN2(line)
    IN IF r.eof THEN [err |-> "EOF", n |-> contentLength, rest |-> <<>>, eof |-> TRUE]
       ELSE IF line = <<>>
       THEN [err |-> "nil", n |-> contentLength, rest |-> r.rest, eof |-> FALSE]
       ELSE IF Len(parts) = 2 /\ parts[1] = <<"Content-Length">>
       THEN IF Atoi(parts[2]).ok
            THEN ReadHeaders(r.rest, Atoi(parts[2]).n)
            ELSE [err |-> "invalid Content-Length", n |-> contentLength,
                  rest |-> r.rest, eof |-> FALSE]
       ELSE ReadHeaders(r.rest, contentLength)

\* ReadMessage: the body or the error it returns, what is left of the
\* stream, and whether it ran out of data (on an open stream it waits).
\* make([]byte, n) with a negative n panics.
ReadMessage(data) ==
    LET h == ReadHeaders(data, 0)
    IN IF h.err # "nil"
       THEN [kind |-> "error", err |-> h.err, body |-> <<>>, rest |-> h.rest, eof |-> h.eof]
       ELSE IF h.n = 0
       THEN [kind |-> "error", err |-> "missing or zero Content-Length", body |-> <<>>,
             rest |-> h.rest, eof |-> FALSE]
       ELSE IF h.n < 0
       THEN [kind |-> "panic", err |-> "makeslice: len out of range", body |-> <<>>,
             rest |-> h.rest, eof |-> FALSE]
       ELSE IF Len(h.rest) < h.n
       THEN [kind |-> "error", err |-> "failed to read body", body |-> <<>>,
             rest |-> <<>>, eof |-> TRUE]
       ELSE [kind |-> "ok", err |-> "nil", body |-> SubSeq(h.rest, 1, h.n),
             rest |-> SubSeq(h.rest, h.n + 1, Len(h.rest)), eof |-> FALSE]

\* JSON values: null, a number, a string, an array.
JNull == [kind |-> "null", num |-> 0, chars |-> <<>>, items |-> <<>>]
JNum(n) == [kind |-> "num", num |-> n, chars |-> <<>>, items |-> <<>>]
JStr(chars) == [kind |-> "str", num |-> 0, chars |-> chars, items |-> <<>>]
JArr(items) == [kind |-> "arr", num |-> 0, chars |-> <<>>, items |-> items]

\* The values written: encodings of 1, 4 and 15 bytes, a string with a line
\* feed in it.
JsonValues ==
    { JNum(7), JNull, JStr(<<"x", LF>>),
      JArr(<<JNum(1), JNull, JNum(23), JStr(<<"x">>)>>) }

\* json.Marshal of a string's characters: a line feed is written \n.
RECURSIVE MarshalChars(_)
MarshalChars(chars) ==
    IF chars = <<>> THEN <<>>
    ELSE (IF Head(chars) = LF THEN <<"\\", "n">> ELSE <<Head(chars)>>)
         \o MarshalChars(Tail(chars))

\* json.Marshal.
RECURSIVE Marshal(_)
RECURSIVE MarshalItems(_)
Marshal(v) ==
    CASE v.kind = "null" -> <<"n", "u", "l", "l">>
      [] v.kind = "num" -> Itoa(v.num)
      [] v.kind = "str" -> <<"\"">> \o MarshalChars(v.chars) \o <<"\"">>
      [] OTHER -> <<"[">> \o MarshalItems(v.items) \o <<"]">>

MarshalItems(items) ==
    IF items = <<>> THEN <<>>
    ELSE Marshal(Head(items)) \o
         (IF Tail(items) = <<>> THEN <<>> ELSE <<",">> \o MarshalItems(Tail(items)))

\* WriteMessage with the blank line after the header left out.
WriteMessage_NoBlankLine(v) ==
    <<"Content-Length", ":", " ">> \o Itoa(Len(Marshal(v))) \o <<CR, LF>>
    \o Marshal(v)

\* WriteMessage: the header "Content-Length: %d\r\n\r\n" and the body.
WriteMessage(v) ==
    <<"Content-Length", ":", " ">> \o Itoa(Len(Marshal(v))) \o <<CR, LF, CR, LF>>
    \o Marshal(v)

\* Header lines a peer may send: Content-Length with the values 2, 0, -1
\* and x, another header, and a line that is no header.
ForeignLines ==
    { <<"Content-Length", ":", " ", "2", CR, LF>>,
      <<"Content-Length", ":", " ", "0", CR, LF>>,
      <<"Content-Length", ":", " ", "-", "1", CR, LF>>,
      <<"Content-Length", ":", " ", "x", CR, LF>>,
      <<"Content-Type", ":", " ", "x", CR, LF>>,
      <<"x", CR, LF>> }

ForeignBodies == { <<>>, <<"b">>, <<"b", LF>>, <<"b", "b", "b">> }

\* A header block, ended by a blank line or not, and what follows it.
ForeignInputs ==
    [lines : SeqsUpTo(ForeignLines, MaxHeaderLines), ended : BOOLEAN,
     body : ForeignBodies] \ {NoInput}

RECURSIVE Flatten(_)
Flatten(seqs) == IF seqs = <<>> THEN <<>> ELSE Head(seqs) \o Flatten(Tail(seqs))

StreamOf(input) ==
    Flatten(input.lines) \o (IF input.ended THEN <<CR, LF>> ELSE <<>>) \o input.body

\* A stream: empty with its writer alive, or holding what a peer sent
\* before it closed its end.
FrameInit ==
    /\ CoordInit /\ ContentInit /\ SourceIdle /\ LspInit /\ DownloadInit /\ ToolIdle
    /\ fin \in {NoInput} \cup ForeignInputs
    /\ fstream = StreamOf(fin)
    /\ fclosed = (fin # NoInput)
    /\ fwritten = <<>>
    /\ fread = <<>>

\* A ReadMessage call has panicked: the process is gone.
Panicked == \E k \in 1..Len(fread) : fread[k].kind = "panic"

\* WriteMessage(w, v).
FrameWrite(v) ==
    /\ ~fclosed /\ ~Panicked
    /\ Len(fwritten) < MaxMessages
    /\ fstream' = fstream \o WriteMessage(v)
    /\ fwritten' = Append(fwritten, v)
    /\ UNCHANGED <<fin, fclosed, fread, frameRest>>

\* The writer closes its end.
FrameClose ==
    /\ ~fclosed
    /\ fclosed' = TRUE
    /\ UNCHANGED <<fin, fstream, fwritten, fread, frameRest>>

\* ReadMessage(r): returns when the stream holds what it asks for or is
\* closed.
FrameRead ==
    /\ ~Panicked
    /\ Len(fread) <= MaxMessages
    /\ fclosed \/ ~ReadMessage(fstream).eof
    /\ fread' = Append(fread, [kind |-> ReadMessage(fstream).kind,
                               body |-> ReadMessage(fstream).body])
    /\ fstream' = ReadMessage(fstream).rest
    /\ UNCHANGED <<fin, fclosed, fwritten, frameRest>>

FrameNext ==
    \/ \E v \in JsonValues : FrameWrite(v)
    \/ FrameClose
    \/ FrameRead

SpecFraming == FrameInit /\ [][FrameNext]_vars

\* The header lines of an input that name Content-Length.
LengthLines(input) ==
    SelectSeq(input.lines, LAMBDA line : line[1] = "Content-Length")

\* The value of a Content-Length line.
LengthText(line) == SubSeq(line, 4, Len(line) - 2)

\* The length an input declares: that of its last Content-Length line.
DeclaredLength(input) == Atoi(LengthText(LengthLines(input)[Len(LengthLines(input))])).n

\* A line without the ": " that separates a header's name from its value.
Malformed(line) == \A k \in 1..Len(line) : line[k] # ":"

\* C17: ReadMessage returns an error and no body whenever the header block
\* has no Content-Length header, gives Content-Length the value zero,
\* contains a malformed header line, or the stream ends before the body is
\* complete (inputs with a negative length are left aside).
C17_BadInputIsAnError ==
    (/\ fin # NoInput
     /\ Len(fread) >= 1
     /\ \A k \in 1..Len(fin.lines) : LengthText(fin.lines[k]) # <<"-", "1">>
     /\ \/ LengthLines(fin) = <<>>
        \/ LengthLines(fin) # <<>> /\ DeclaredLength(fin) = 0
        \/ \E k \in 1..Len(fin.lines) : Malformed(fin.lines[k])
        \/ ~fin.ended
        \/ LengthLines(fin) # <<>> /\ DeclaredLength(fin) > Len(fin.body))
    => fread[1] = [kind |-> "error", body |-> <<>>]


\* The bytes of the messages k..Len(values) as WriteMessage writes them.
RECURSIVE FramesFrom(_, _)
FramesFrom(values, k) ==
    IF k > Len(values) THEN <<>>
    ELSE WriteMessage(values[k]) \o FramesFrom(values, k + 1)

\* C18: ReadMessage applied to what WriteMessage(v) wrote returns the JSON
\* encoding of v; N consecutive WriteMessage outputs are read back as
\* exactly those N messages, in write order, each call consuming exactly one
\* message (a call after the last message of a closed stream is an error).
C18_ReadReturnsWhatWasWritten ==
    fin = NoInput =>
        /\ \A k \in 1..Len(fread) :
               IF k <= Len(fwritten)
               THEN fread[k] = [kind |-> "ok", body |-> Marshal(fwritten[k])]
               ELSE fread[k] = [kind |-> "error", body |-> <<>>]
        /\ fstream = FramesFrom(fwritten, Len(fread) + 1)

\* Three messages were written, the 15-byte one second; two have been read
\* and the third is still in the stream.
C18_Witness ==
    /\ fin = NoInput
    /\ Len(fwritten) = 3 /\ Len(fread) = 2
    /\ fread[2].kind = "ok" /\ Len(fread[2].body) = 15
    /\ fread[1].body # fread[2].body
    /\ fstream # <<>>


\* ======================================================================
\* downloadFile: retries, backoff and cancellation (SpecDownload)
\* ======================================================================

maxRetries == 3

\* How one attempt ends: NewRequestWithContext fails, httpClient.Do fails,
\* the status is not 200, dest.Seek fails, io.Copy fails, or the body is
\* copied.
AttemptOutcomes ==
    {"request error", "transport error", "bad status", "seek error", "copy error", "ok"}

\* Backoff with a wait that grows linearly.
Backoff_Linear(n) == n

\* The seconds waited before attempt n.
Backoff(n) == n * n

\* fmt.Errorf("download failed after %d attempts: %w", maxRetries, lastErr).
Wrapped(err) == [kind |-> "download failed after 3 attempts", err |-> err]

\* An error returned as it is.
Bare(err) == [kind |-> "bare", err |-> err]

Success == [kind |-> "nil", err |-> NoError]

\* ctx is cancelled while the call runs.
DownloadCancel ==
    /\ dpc # "done"
    /\ dcancel = "no"
    /\ dcancel' = dpc
    /\ UNCHANGED <<attempt, lastErr, dpc, dresult, dlog, dwaits, dhttp, downloadRest>>

\* The backoff before attempts 2 and 3 is waited out: time.After fires.
BackoffElapsed ==
    /\ dpc = "backoff"
    /\ dcancel = "no"
    /\ dwaits' = Append(dwaits, Backoff(attempt))
    /\ dpc' = "attempt"
    /\ UNCHANGED <<attempt, lastErr, dresult, dlog, dhttp, dcancel, downloadRest>>

\* ctx.Done() is closed before or during the backoff: return ctx.Err().
BackoffCancelled ==
    /\ dpc = "backoff"
    /\ dcancel # "no"
    /\ dresult' = Bare("context canceled")
    /\ dpc' = "done"
    /\ UNCHANGED <<attempt, lastErr, dlog, dwaits, dhttp, dcancel, downloadRest>>

\* One attempt, from the request to the copy, and the loop's step: success
\* and a failed Seek return, every other failure is kept in lastErr and the
\* loop goes on; after the last attempt the wrapped lastErr is returned.
Attempt(outcome) ==
    /\ dpc = "attempt"
    /\ dlog' = Append(dlog, outcome)
    /\ dhttp' = IF outcome = "request error" THEN dhttp ELSE dhttp + 1
    /\ IF outcome = "ok"
       THEN /\ dresult' = Success /\ dpc' = "done"
            /\ UNCHANGED <<attempt, lastErr>>
       ELSE IF outcome = "seek error"
       THEN /\ dresult' = Bare(outcome) /\ dpc' = "done"
            /\ UNCHANGED <<attempt, lastErr>>
       ELSE /\ lastErr' = outcome
            /\ attempt' = attempt + 1
            /\ IF attempt + 1 <= maxRetries
               THEN dpc' = "backoff" /\ UNCHANGED dresult
               ELSE dpc' = "done" /\ dresult' = Wrapped(outcome)
    /\ UNCHANGED <<dwaits, dcancel, downloadRest>>

DownloadNext ==
    \/ DownloadCancel
    \/ BackoffElapsed
    \/ BackoffCancelled
    \/ \E outcome \in AttemptOutcomes : Attempt(outcome)

SpecDownload == Init /\ [][DownloadNext]_vars

\* What the claim says besides the error returned after the third attempt:
\* at most 3 HTTP attempts; attempt n >= 2 is made after a wait of n^2
\* seconds; the call stops at the first attempt whose body is fully copied;
\* a cancellation during a backoff makes the call return the context's
\* error without a further attempt.
RetryAndCancelRules ==
    /\ dhttp <= 3 /\ Len(dlog) <= 3
    /\ \A k \in 1..Len(dwaits) : dwaits[k] = (k + 1) * (k + 1)
    /\ Len(dwaits) <= Len(dlog) /\ Len(dlog) <= Len(dwaits) + 1
    /\ \A k \in 1..Len(dlog) :
           dlog[k] = "ok" => k = Len(dlog) /\ dpc = "done" /\ dresult = Success
    /\ dcancel = "backoff" =>
           /\ Len(dlog) = attempt - 1
           /\ dpc = "done" => dresult = [kind |-> "bare", err |-> "context canceled"]

\* C20 as stated: the rules above, and after a third failed attempt the
\* error returned wraps the last failure.
C20_ThirdFailureIsWrapped ==
    /\ RetryAndCancelRules
    /\ (Len(dlog) = 3 /\ dlog[3] # "ok") =>
           dresult = [kind |-> "download failed after 3 attempts", err |-> dlog[3]]

\* C20, amended: the rules above; a failure to rewind the destination file
\* ends the call at once, at any attempt, with that error as it is; after a
\* third attempt that failed in any other way the error returned wraps the
\* last failure.
C20_ThirdFailureIsWrappedButSeek ==
    /\ RetryAndCancelRules
    /\ \A k \in 1..Len(dlog) :
           dlog[k] = "seek error" =>
               /\ k = Len(dlog) /\ dpc = "done"
               /\ dresult = [kind |-> "bare", err |-> "seek error"]
    /\ (Len(dlog) = 3 /\ dlog[3] \notin {"ok", "seek error"}) =>
           dresult = [kind |-> "download failed after 3 attempts", err |-> dlog[3]]

\* Three attempts failed, with waits of 4 and 9 seconds between them, and
\* the wrapped error of the third was returned.
C20_Witness ==
    /\ Len(dlog) = 3 /\ dwaits = <<4, 9>>
    /\ dlog[3] = "copy error" /\ dlog[1] = "bad status"
    /\ dresult = [kind |-> "download failed after 3 attempts", err |-> "copy error"]


\* ======================================================================
\* Frame and termination of the index handler
\* ======================================================================

\* C27: if the scan fails the index call makes no store write (it calls no
\* BulkUpsertNodes, PruneStaleFiles or BulkUpsertEdges): the stored nodes
\* and edges are those before the call, and the status is failed.
C27_FailedScanWritesNothing ==
    [][\A i \in IndexCallers :
          (ipc[i] = "Scan" /\ ipc'[i] = "done" /\ ~ilog'[i][1].ok) =>
              /\ ilog'[i] = <<[op |-> "Scan", ok |-> FALSE]>>
              /\ stNodes' = stNodes /\ stEdges' = stEdges
              /\ <<storeNodes, storePruned, storeEdges>>' = <<storeNodes, storePruned, storeEdges>>
              /\ indexStatus' = IndexStatusFailed]_vars

\* A scan has failed on a store that holds nodes and edges.
C27_Witness ==
    \E i \in IndexCallers :
        /\ ipc[i] = "done" /\ iresult[i] = "Scan failed"
        /\ stNodes # {} /\ stEdges # EmptyBag


\* C28: every index call that sets the status in-progress sets it to ready
\* or failed before it returns, on every path; once no index call is
\* running the status is not in-progress.
C28_InProgressIsSettled ==
    /\ \A i \in IndexCallers :
           (ipc[i] = "done" /\ iset[i] # <<>>) =>
               /\ Len(iset[i]) = 2
               /\ iset[i][1] = IndexStatusInProgress
               /\ iset[i][2] \in {IndexStatusReady, IndexStatusFailed}
    /\ (\A i \in IndexCallers : ~InFlight(i)) => indexStatus # IndexStatusInProgress

\* Two calls have run and returned, one of them through a failed prune to a
\* failed edge upsert, the other to its summary.
C28_Witness ==
    /\ \A i \in IndexCallers : ipc[i] = "done" /\ Len(iset[i]) = 2
    /\ \E i \in IndexCallers :
           FailedAt(i, "PruneStaleFiles") /\ FailedAt(i, "BulkUpsertEdges")
    /\ \E i \in IndexCallers : iresult[i] = "Indexed"


\* C29: every ReadMessage call returns a body of exactly Content-Length
\* bytes or an error; a Content-Length whose value is negative or not a
\* number yields an error, never a crash and never a body.
C29_ReadMessageNeverCrashes ==
    /\ \A k \in 1..Len(fread) :
           /\ fread[k].kind \in {"ok", "error"}
           /\ fread[k].kind = "error" => fread[k].body = <<>>
    /\ (/\ fin # NoInput /\ fin.ended /\ Len(fread) >= 1
        /\ LengthLines(fin) # <<>>
        /\ LengthText(LengthLines(fin)[Len(LengthLines(fin))]) \in {<<"-", "1">>, <<"x">>})
       => fread[1] = [kind |-> "error", body |-> <<>>]
    /\ (/\ fin # NoInput /\ Len(fread) >= 1 /\ fread[1].kind = "ok")
       => Len(fread[1].body) = DeclaredLength(fin)


\* ======================================================================
\* Node IDs of two (file path, symbol name) pairs (SpecNodeID)
\* ======================================================================

\* File paths and symbol names, some with the ':' of the hashed string in
\* them: a file named "a:b" next to a file named "a", a Lua method "b:c".
IDPaths == {"/w/a", "/w/a:b", "/w/d"}
IDNames == {"c", "b:c", "e"}

NodeIDInit ==
    /\ ServerIdle
    /\ PkgInit
    /\ BinIdle
    /\ idArgs \in (IDPaths \X IDNames) \X (IDPaths \X IDNames)
    /\ idResult = <<>>

\* util.GenerateNodeID is called for both pairs.
ComputeNodeIDs ==
    /\ idResult = <<>>
    /\ idResult' = <<GenerateNodeID(idArgs[1][1], idArgs[1][2]),
                     GenerateNodeID(idArgs[2][1], idArgs[2][2])>>
    /\ UNCHANGED <<idArgs, nodeIDRest>>

NodeIDNext == ComputeNodeIDs

SpecNodeID == NodeIDInit /\ [][NodeIDNext]_vars

\* C30: distinct (file path, symbol name) pairs give distinct node IDs, up
\* to SHA-256 collisions, also when the path or the name contains ':'.
C30_DistinctPairsDistinctIDs ==
    (idResult # <<>> /\ idArgs[1] # idArgs[2]) => idResult[1] # idResult[2]


\* ======================================================================
\* The package manager: Install, Uninstall, IsInstalled (SpecPkg)
\* ======================================================================

\* Calls made in one run.
MaxPkgOps == 3

\* The versions the metadata given to Install can name.
PkgVersions == {"v1", "v2"}

\* SHA-256 digests in hex: the ones a download can have, and the ones the
\* metadata can expect ("" when it gives none).
ActualChecksums == {"aa", "bb"}
ExpectedChecksums == {"", "aa"}

\* The operating-system call of Install that fails, "none" when all work:
\* MkdirAll, CreateTemp, downloadFile, copyFile or extractArchive before
\* ("copy") or after ("copyPartial") the destination file is created, Chmod,
\* WriteFile of the metadata, Symlink of 'current', GetBinaryPath, Symlink
\* into bin/.
InstallFaults ==
    {"none", "mkdir", "tmp", "download", "copy", "copyPartial", "chmod",
     "meta", "current", "binpath", "binlink"}

\* The call of Uninstall that fails: Readlink in IsInstalled (an error other
\* than 'not exist'), ReadFile or Unmarshal of the metadata, Remove of the
\* link in bin/, RemoveAll of the package directory.
UninstallFaults == {"none", "isinstalled", "readmeta", "rmlink", "rmall"}

\* IsInstalled that never finds the package.
IsInstalled_Never(current, verDirs) ==
    [installed |-> FALSE, version |-> ""]

\* Manager.IsInstalled: the package is installed when 'current' is a link
\* and the version directory it names exists.
IsInstalled(current, verDirs) ==
    IF current = NoLink THEN [installed |-> FALSE, version |-> ""]
    ELSE IF current \notin verDirs THEN [installed |-> FALSE, version |-> ""]
    ELSE [installed |-> TRUE, version |-> current]

\* verifyChecksum that compares nothing.
verifyChecksum_AcceptAll(actualChecksum, expectedChecksum) ==
    actualChecksum \in ActualChecksums

\* verifyChecksum: TRUE when it returns nil.
verifyChecksum(actualChecksum, expectedChecksum) ==
    actualChecksum = expectedChecksum

\* What a call returns and the files it leaves, as one record.
Outcome(err, downloaded, dirs, bins, metas, current, link, tmp) ==
    [err |-> err, downloaded |-> downloaded, dirs |-> dirs, bins |-> bins,
     metas |-> metas, current |-> current, link |-> link, tmp |-> tmp]

\* A return that has touched no file.
Untouched(err) ==
    Outcome(err, FALSE, pkgVerDirs, pkgBinaries, pkgMetas, pkgCurrent,
            pkgBinLink, pkgTmp)

\* createSymlink: whatever is at the target is removed, then the link is
\* made.
createSymlink(version, failed) == IF failed THEN NoLink ELSE version

\* Installer.Install: what it returns and the files it leaves. The deferred
\* os.Remove takes the temporary file away on every return after CreateTemp.
InstallReturn(version, hasURL, expected, actual, fault) ==
    LET dirs == pkgVerDirs \cup {version}
        tmpHeld == pkgTmp + 1
        tmpLeft == tmpHeld - 1
        bins1 == pkgBinaries \cup {version}
        metas1 == pkgMetas \cup {version}
        Out(err, downloaded, bins, metas, current, link) ==
            Outcome(err, downloaded, dirs, bins, metas, current, link, tmpLeft)
    IN  IF IsInstalled(pkgCurrent, pkgVerDirs).installed
        THEN Untouched("nil")
        ELSE IF ~hasURL
        THEN Untouched("no download URL for platform")
        ELSE IF fault = "mkdir"
        THEN Untouched("failed to create version directory")
        ELSE IF fault = "tmp"
        THEN Outcome("failed to create temp file", FALSE, dirs, pkgBinaries,
                     pkgMetas, pkgCurrent, pkgBinLink, pkgTmp)
        ELSE IF fault = "download"
        THEN Out("download failed", FALSE, pkgBinaries, pkgMetas, pkgCurrent,
                 pkgBinLink)
        ELSE IF expected # "" /\ ~verifyChecksum(actual, expected)
        THEN Out("checksum verification failed", TRUE, pkgBinaries, pkgMetas,
                 pkgCurrent, pkgBinLink)
        ELSE IF fault = "copy"
        THEN Out("failed to copy binary", TRUE, pkgBinaries, pkgMetas,
                 pkgCurrent, pkgBinLink)
        ELSE IF fault = "copyPartial"
        THEN Out("failed to copy binary", TRUE, bins1, pkgMetas, pkgCurrent,
                 pkgBinLink)
        ELSE IF fault = "chmod"
        THEN Out("failed to make binary executable", TRUE, bins1, pkgMetas,
                 pkgCurrent, pkgBinLink)
        ELSE IF fault = "meta"
        THEN Out("failed to write metadata", TRUE, bins1, pkgMetas,
                 pkgCurrent, pkgBinLink)
        ELSE IF fault = "current"
        THEN Out("failed to create current version link", TRUE, bins1,
                 metas1, NoLink, pkgBinLink)
        ELSE IF fault = "binpath"
        THEN Out("failed to get user home directory", TRUE, bins1, metas1,
                 version, pkgBinLink)
        ELSE IF fault = "binlink"
        THEN Out("failed to create binary symlink", TRUE, bins1, metas1,
                 version, createSymlink(version, TRUE))
        ELSE Out("nil", TRUE, bins1, metas1, version,
                 createSymlink(version, FALSE))

\* Manager.Uninstall: what it returns and the files it leaves. A RemoveAll
\* that fails has removed the files inside the version directories
\* (emptied) or nothing; the entries of the package directory itself stay.
UninstallReturn(fault, emptied) ==
    LET inst == IsInstalled(pkgCurrent, pkgVerDirs)
        metaRead == pkgCurrent \in pkgMetas /\ fault # "readmeta"
        link == IF metaRead /\ fault # "rmlink" THEN NoLink ELSE pkgBinLink
    IN  IF fault = "isinstalled"
        THEN Untouched("readlink failed")
        ELSE IF ~inst.installed
        THEN Untouched("package not installed")
        ELSE IF fault = "rmall"
        THEN Outcome("failed to remove package directory", FALSE, pkgVerDirs,
                     IF emptied THEN {} ELSE pkgBinaries,
                     IF emptied THEN {} ELSE pkgMetas,
                     pkgCurrent, link, pkgTmp)
        ELSE Outcome("nil", FALSE, {}, {}, {}, NoLink, link, pkgTmp)

\* The files become the ones a call has left.
SetFiles(files) ==
    /\ pkgVerDirs' = files.dirs
    /\ pkgBinaries' = files.bins
    /\ pkgMetas' = files.metas
    /\ pkgCurrent' = files.current
    /\ pkgBinLink' = files.link
    /\ pkgTmp' = files.tmp

\* One call of Installer.Install.
Install ==
    /\ pkgOps < MaxPkgOps
    /\ \E version \in PkgVersions, hasURL \in BOOLEAN,
          expected \in ExpectedChecksums, actual \in ActualChecksums,
          fault \in InstallFaults :
           LET ret == InstallReturn(version, hasURL, expected, actual, fault)
           IN  /\ SetFiles(ret)
               /\ pkgLast' = [op |-> "Install", version |-> version,
                              hasURL |-> hasURL, expected |-> expected,
                              actual |-> actual, fault |-> fault,
                              err |-> ret.err, downloaded |-> ret.downloaded]
    /\ pkgOps' = pkgOps + 1
    /\ UNCHANGED pkgRest

\* One call of Manager.Uninstall.
Uninstall ==
    /\ pkgOps < MaxPkgOps
    /\ \E fault \in UninstallFaults, emptied \in BOOLEAN :
           LET ret == UninstallReturn(fault, emptied)
           IN  /\ SetFiles(ret)
               /\ pkgLast' = [op |-> "Uninstall", fault |-> fault,
                              err |-> ret.err]
    /\ pkgOps' = pkgOps + 1
    /\ UNCHANGED pkgRest

PkgNext == Install \/ Uninstall

SpecPkg == Init /\ [][PkgNext]_vars

\* The step is an Install of a package that is not installed, which has
\* downloaded a file whose digest is not the non-empty one expected.
ChecksumMismatchStep ==
    /\ pkgOps' = pkgOps + 1
    /\ pkgLast'.op = "Install"
    /\ ~IsInstalled(pkgCurrent, pkgVerDirs).installed
    /\ pkgLast'.hasURL
    /\ pkgLast'.fault \notin {"mkdir", "tmp", "download"}
    /\ pkgLast'.expected # ""
    /\ pkgLast'.actual # pkgLast'.expected

\* C21: an Install whose download does not have the non-empty expected
\* SHA-256 returns the checksum error, leaves no temporary file, writes no
\* binary and no metadata file, makes neither the 'current' link nor the
\* link in bin/, and the package is still not installed.
C21_ChecksumMismatchInstallsNothing ==
    [][ChecksumMismatchStep =>
          /\ pkgLast'.err = "checksum verification failed"
          /\ pkgTmp' = 0
          /\ pkgBinaries' = pkgBinaries
          /\ pkgMetas' = pkgMetas
          /\ pkgCurrent' = pkgCurrent
          /\ pkgBinLink' = pkgBinLink
          /\ ~IsInstalled(pkgCurrent', pkgVerDirs').installed]_vars

\* The first call was an Install that met a wrong checksum: the version
\* directory is there and empty, nothing else is.
C21_Witness ==
    /\ pkgOps = 1
    /\ pkgLast.op = "Install"
    /\ pkgLast.expected = "aa" /\ pkgLast.actual = "bb"
    /\ pkgLast.err = "checksum verification failed"
    /\ pkgVerDirs = {pkgLast.version}
    /\ pkgBinaries = {} /\ pkgMetas = {}
    /\ pkgCurrent = NoLink /\ pkgBinLink = NoLink /\ pkgTmp = 0


\* C24: an Uninstall of a package that IsInstalled reports as not installed
\* returns "package not installed" and changes no file; an Uninstall that
\* returns nil has removed the package directory and the link in bin/, and
\* the package is then not installed.
C24_UninstallRemovesDirectoryAndLink ==
    [][(pkgOps' = pkgOps + 1 /\ pkgLast'.op = "Uninstall") =>
          /\ (/\ pkgLast'.fault # "isinstalled"
              /\ ~IsInstalled(pkgCurrent, pkgVerDirs).installed)
             => /\ pkgLast'.err = "package not installed"
                /\ UNCHANGED <<pkgVerDirs, pkgBinaries, pkgMetas, pkgCurrent,
                               pkgBinLink, pkgTmp>>
          /\ pkgLast'.err = "nil"
             => /\ pkgVerDirs' = {} /\ pkgBinaries' = {} /\ pkgMetas' = {}
                /\ pkgCurrent' = NoLink
                /\ pkgBinLink' = NoLink
                /\ ~IsInstalled(pkgCurrent', pkgVerDirs').installed]_vars


\* The 'current' link names a version directory that exists.
CurrentVersionPresent ==
    pkgCurrent # NoLink /\ pkgCurrent \in pkgVerDirs

\* C25: an Install of a package that is installed returns nil, downloads
\* nothing and changes no file, whatever version the metadata names; and
\* every Install that returns nil leaves the package installed, so that a
\* second Install after it changes nothing.
C25_InstallIsIdempotent ==
    [][(pkgOps' = pkgOps + 1 /\ pkgLast'.op = "Install") =>
          /\ CurrentVersionPresent
             => /\ pkgLast'.err = "nil"
                /\ ~pkgLast'.downloaded
                /\ UNCHANGED <<pkgVerDirs, pkgBinaries, pkgMetas, pkgCurrent,
                               pkgBinLink, pkgTmp>>
          /\ pkgLast'.err = "nil" => CurrentVersionPresent']_vars

\* An Install of v1 has succeeded and a second Install, naming v2, has
\* returned nil without a download: v1 is still the current version and
\* there is no directory for v2.
C25_Witness ==
    /\ pkgOps = 2
    /\ pkgLast.op = "Install" /\ pkgLast.version = "v2"
    /\ pkgLast.err = "nil" /\ ~pkgLast.downloaded
    /\ pkgCurrent = "v1" /\ pkgBinLink = "v1"
    /\ pkgVerDirs = {"v1"} /\ pkgBinaries = {"v1"} /\ pkgMetas = {"v1"}


\* C26: after every Install that returns nil, bin/ holds the link to the
\* package's binary, 'current' names a version whose directory holds the
\* binary and .metadata.json, and the link leads to that binary; whatever
\* installs, failed installs and uninstalls came before.
C26_NilInstallIsComplete ==
    [][(pkgOps' = pkgOps + 1 /\ pkgLast'.op = "Install"
        /\ pkgLast'.err = "nil") =>
          /\ pkgCurrent' # NoLink
          /\ pkgCurrent' \in pkgVerDirs'
          /\ pkgCurrent' \in pkgBinaries'
          /\ pkgCurrent' \in pkgMetas'
          /\ pkgBinLink' = pkgCurrent']_vars


\* ======================================================================
\* LSP binaries: GetLSPMetadata and Downloader.EnsureLSP (SpecLspBin)
\* ======================================================================

\* The languages asked for: the five of the table and one without a server.
BinLanguages == DOMAIN PinnedMetadata \cup {"rust"}

\* What ResolveLatestVersion returns: an error, or the tag_name (version)
\* field decoded from the answer, "" when the answer has no such field.
ResolveOutcomes ==
    {[failed |-> TRUE, version |-> ""],
     [failed |-> FALSE, version |-> "9.9.9"],
     [failed |-> FALSE, version |-> ""]}

\* How downloadAndInstall ends: the binary is in the cache, nothing is, or
\* it has failed after the binary's file was created.
DownloadEnds == {"ok", "failed", "partial"}

\* What os.Stat finds at <dir>/<binary> for a directory of PATH.
PathKinds == {"absent", "dir", "noexec", "exec"}

\* The files before the calls: whether the custom path exists, what the two
\* directories of PATH hold, and which <lang>/<version>/<binary> the cache
\* holds (at most one before the first download).
BinEnvs ==
    [custom : BOOLEAN,
     path : [1..2 -> PathKinds],
     cached : {{}} \cup {{<<l, v>>} : l \in {"go", "zig"},
                                     v \in {"v0.21.1", "0.15.1", "9.9.9"}}]

\* The arguments of a call and the answers of the network during it.
BinCalls ==
    [lang : BinLanguages, customPath : {"", "/opt/lsp"},
     resolved : ResolveOutcomes, download : DownloadEnds]

\* strings.ReplaceAll(urlTemplate, "{version}", version).
ReplaceAll(urlTemplate, version) ==
    [i \in 1..Len(urlTemplate) |->
        IF urlTemplate[i] = Placeholder THEN version ELSE urlTemplate[i]]

\* GetLSPMetadata: the error and the clone returned, and the table after.
GetLSPMetadata(table, lang, resolved) ==
    IF lang \notin DOMAIN table
    THEN [err |-> "no metadata for language", table |-> table]
    ELSE LET metadata == table[lang]
             version == IF resolved.failed THEN metadata.Version
                        ELSE resolved.version
         IN  [err |-> "nil",
              meta |-> [Name |-> metadata.Name,
                        Version |-> version,
                        BinaryName |-> metadata.BinaryName,
                        DownloadURLs |->
                            [p \in DOMAIN metadata.DownloadURLs |->
                                ReplaceAll(metadata.DownloadURLs[p], version)]],
              table |-> table]

\* findInPath that takes whatever has the binary's name.
findInPath_AnyEntry(path) ==
    IF \E i \in DOMAIN path : path[i] # "absent"
    THEN CHOOSE i \in DOMAIN path :
             /\ path[i] # "absent"
             /\ \A j \in DOMAIN path : path[j] # "absent" => i <= j
    ELSE 0

\* findInPath: the first directory of PATH that holds the binary as an
\* executable file that is not a directory, 0 without one.
findInPath(path) ==
    IF \E i \in DOMAIN path : path[i] = "exec"
    THEN CHOOSE i \in DOMAIN path :
             /\ path[i] = "exec"
             /\ \A j \in DOMAIN path : path[j] = "exec" => i <= j
    ELSE 0

\* Downloader.EnsureLSP: the error and the path returned, what the call has
\* looked at, and the cache after it.
EnsureLSP(env, table, call) ==
    LET got == GetLSPMetadata(table, call.lang, call.resolved)
        askedCustom == IF call.customPath # "" THEN {"custom"} ELSE {}
        systemPath == findInPath(env.path)
        cachedPath == <<call.lang, got.meta.Version>>
        Out(err, where, at, touched, cached) ==
            [err |-> err, where |-> where, at |-> at, touched |-> touched,
             cached |-> cached]
    IN  IF got.err # "nil"
        THEN Out(got.err, "", "", {}, env.cached)
        ELSE IF call.customPath # "" /\ env.custom
        THEN Out("nil", "custom", call.customPath, {"resolver", "custom"},
                 env.cached)
        ELSE IF systemPath # 0
        THEN Out("nil", "PATH", systemPath,
                 {"resolver", "PATH"} \cup askedCustom, env.cached)
        ELSE IF cachedPath \in env.cached
        THEN Out("nil", "cache", cachedPath,
                 {"resolver", "PATH", "cache"} \cup askedCustom, env.cached)
        ELSE IF call.download = "ok"
        THEN Out("nil", "cache", cachedPath,
                 {"resolver", "PATH", "cache", "download"} \cup askedCustom,
                 env.cached \cup {cachedPath})
        ELSE Out("failed to download", "", "",
                 {"resolver", "PATH", "cache", "download"} \cup askedCustom,
                 IF call.download = "partial"
                 THEN env.cached \cup {cachedPath} ELSE env.cached)

\* The files and the calls are drawn.
BinInit ==
    /\ ServerIdle /\ NodeIDIdle /\ PkgInit
    /\ lspMetadata = PinnedMetadata
    /\ binEnv \in BinEnvs
    /\ binCall \in BinCalls
    /\ binOut = NoCall

\* One call of GetLSPMetadata.
GetLSPMetadataCall ==
    LET got == GetLSPMetadata(lspMetadata, binCall.lang, binCall.resolved)
    IN  /\ binOut' = [op |-> "GetLSPMetadata", got |-> got]
        /\ lspMetadata' = got.table
        /\ UNCHANGED <<binEnv, binCall, binRest>>

\* One call of Downloader.EnsureLSP.
EnsureLSPCall ==
    LET ret == EnsureLSP(binEnv, lspMetadata, binCall)
    IN  /\ binOut' = [op |-> "EnsureLSP", ret |-> ret, before |-> binEnv]
        /\ binEnv' = [binEnv EXCEPT !.cached = ret.cached]
        /\ UNCHANGED <<lspMetadata, binCall, binRest>>

BinNext == GetLSPMetadataCall \/ EnsureLSPCall

SpecLspBin == BinInit /\ [][BinNext]_vars


\* The directories of PATH in which the binary is an executable file.
OnPath(env) == {i \in DOMAIN env.path : env.path[i] = "exec"}

\* The version EnsureLSP works with: the resolved one, the pinned one when
\* the resolver has failed.
WantedVersion ==
    IF binCall.resolved.failed THEN PinnedMetadata[binCall.lang].Version
    ELSE binCall.resolved.version

\* C22: EnsureLSP returns the custom path when it is given and exists; else
\* the first entry of PATH with the binary; else the cached binary; it
\* downloads only when all three are absent; for a language without a
\* server it returns an error and has touched neither PATH, cache nor
\* network.
C22_EnsureLSPPriority ==
    binOut.op = "EnsureLSP" =>
        LET env == binOut.before
            ret == binOut.ret
            hasCustom == binCall.customPath # "" /\ env.custom
        IN  IF binCall.lang \notin DOMAIN PinnedMetadata
            THEN /\ ret.err # "nil"
                 /\ ret.touched = {}
                 /\ ret.cached = env.cached
            ELSE /\ hasCustom
                    => /\ ret.err = "nil"
                       /\ ret.where = "custom" /\ ret.at = binCall.customPath
                 /\ (~hasCustom /\ OnPath(env) # {})
                    => /\ ret.err = "nil"
                       /\ ret.where = "PATH" /\ ret.at \in OnPath(env)
                       /\ \A i \in OnPath(env) : ret.at <= i
                 /\ (/\ ~hasCustom /\ OnPath(env) = {}
                     /\ <<binCall.lang, WantedVersion>> \in env.cached)
                    => /\ ret.err = "nil"
                       /\ ret.where = "cache"
                       /\ ret.at = <<binCall.lang, WantedVersion>>
                 /\ "download" \in ret.touched
                    <=> /\ ~hasCustom /\ OnPath(env) = {}
                        /\ <<binCall.lang, WantedVersion>> \notin env.cached
                 /\ "download" \notin ret.touched => ret.cached = env.cached

\* EnsureLSP has returned the cached gopls although a custom path was given
\* (it does not exist) and PATH has a gopls that is not executable.
C22_Witness ==
    /\ binOut.op = "EnsureLSP"
    /\ binCall.lang = "go" /\ binCall.customPath = "/opt/lsp"
    /\ ~binOut.before.custom
    /\ binOut.before.path = [i \in 1..2 |-> IF i = 1 THEN "noexec" ELSE "dir"]
    /\ binOut.before.cached = {<<"go", "9.9.9">>}
    /\ binOut.ret.where = "cache" /\ binOut.ret.at = <<"go", "9.9.9">>
    /\ "download" \notin binOut.ret.touched


\* C23: GetLSPMetadata returns an error for a language outside the five;
\* for each of the five it returns a non-empty name, version and binary
\* name, and URLs that are the templates with every placeholder replaced by
\* the resolved version (the pinned one when the resolver has failed); the
\* table lspMetadata is what it was.
C23_MetadataIsResolved ==
    binOut.op = "GetLSPMetadata" =>
        /\ lspMetadata = PinnedMetadata
        /\ IF binCall.lang \notin {"go", "python", "typescript", "lua", "zig"}
           THEN binOut.got.err # "nil"
           ELSE LET meta == binOut.got.meta
                    pinned == PinnedMetadata[binCall.lang]
                IN  /\ binOut.got.err = "nil"
                    /\ meta.Name # ""
                    /\ meta.Version # ""
                    /\ meta.BinaryName # ""
                    /\ meta.Version = WantedVersion
                    /\ DOMAIN meta.DownloadURLs = DOMAIN pinned.DownloadURLs
                    /\ \A p \in DOMAIN meta.DownloadURLs :
                           LET url == meta.DownloadURLs[p]
                               template == pinned.DownloadURLs[p]
                           IN  /\ Len(url) = Len(template)
                               /\ \A i \in 1..Len(url) :
                                      /\ url[i] # Placeholder
                                      /\ url[i] =
                                            IF template[i] = Placeholder
                                            THEN WantedVersion
                                            ELSE template[i]

====
